---- MODULE Spec2Model ----
(***************************************************************************)
(* Scheduling model of the liquid paint-stroke canvases.                   *)
(*                                                                         *)
(* Four components are modelled, one mounted per behaviour:                *)
(*   "textured"  src/unnamed/part_001 (texture-projection brush canvas)    *)
(*   "brush"     src/components/LiquidBrushStrokeCanvas.tsx                *)
(*   "early"     src/unnamed/part_000 (first brush canvas)                 *)
(*   "velvet"    src/components/LiquidVelvetCanvas.tsx (ambient canvas)    *)
(*                                                                         *)
(* Time is counted in units of 1/120 s, so that 1000/60 ms is 2 units and  *)
(* 1000/30 ms is 4 units.  The browser is the environment: it advances     *)
(* the clock, runs pending animation-frame callbacks with the timestamp   *)
(* of the frame (HTML "update the rendering": one frame per timestamp,     *)
(* timestamps increasing, performance.now() never behind the last frame    *)
(* timestamp), and delivers observer notifications and events only to      *)
(* observers and listeners that are still registered.                      *)
(***************************************************************************)
EXTENDS Integers, FiniteSets, Sequences, TLC

VARIABLES
  component,        \* which canvas component this behaviour mounts
  prefersReduced,   \* matchMedia('(prefers-reduced-motion: reduce)').matches
  ctxOk,            \* canvas.getContext('2d') returns a context
  phase,            \* "fresh" | "mounted" | "aborted" | "cleaned"
  now,              \* performance.now(), in units
  ticks,            \* number of clock advances so far (bounded)
  lastFrame,        \* timestamp of the last animation frame run, NULL if none
  pending,          \* browser: ids of the animation-frame callbacks requested
  rafRef,           \* rafRef.current (0 models null)
  t0Ref,            \* t0Ref / startTimeRef .current (NULL models null)
  doneRef,          \* doneRef / isDoneRef .current
  strokesRef,       \* strokesRef / sceneRef .current is non-null
  sizeRef,          \* sizeRef.current, <<w, h>>
  cancelled,        \* part_001: the effect closure's cancelled flag
  img,              \* part_001: "none" | "loading" | "loaded" | "failed"
  textureRef,       \* part_001: textureRef.current is non-null
  textureReadyRef,  \* part_001: textureReadyRef.current
  roConnected,      \* the ResizeObserver is observing
  isMobile,         \* velvet: touch device ('ontouchstart' in window or coarse pointer)
  docHidden,        \* browser: document.hidden
  ioConnected,      \* velvet: the IntersectionObserver is observing
  visListener,      \* velvet: the visibilitychange listener is registered
  inputListeners,   \* velvet: the pointermove/touchmove listeners are registered
  staticResRef,     \* velvet: staticResRef.current is non-null
  lastTimeRef,      \* velvet: lastTimeRef.current (NULL models null)
  ptrRef,           \* velvet: ptrRef.current, <<x, y>> in 1/10 px
  smoothPtrRef,     \* velvet: smoothPtrRef.current, <<x, y>> in 1/10 px
  isOnScreenRef,    \* velvet: isOnScreenRef.current
  lastDrawTimeRef,  \* velvet: lastDrawTimeRef.current (NULL models null)
  lastDrawElapsedRef, \* velvet: lastDrawElapsedRef.current, in units
  lastDrawPtrRef,   \* velvet: lastDrawPtrRef.current, <<x, y>> in 1/10 px
  lastTouchTimeRef, \* velvet: lastTouchTimeRef.current (NULL models null)
  op,               \* history: the handler that ran last
  paints,           \* history: renders made by the handler that ran last
  renders,          \* history: renders made since mount
  lastElapsed,      \* history: elapsed argument of the latest render
  lastTexture,      \* history: texture argument of the latest render non-null
  resizes,          \* history: resize notifications delivered
  loads,            \* history: texture load-complete repaints
  loopElapsed,      \* history: elapsed computed by the latest frame callback
  lastCall,         \* history: arguments and output of the latest render
  prevCall,         \* history: arguments and output of the render before it
  arg,              \* a call of a function of the renderer: <<name, inputs...>>
  ret               \* and what the calls made so far returned

brushVars == <<rafRef, t0Ref, doneRef, strokesRef, sizeRef, cancelled, img,
               textureRef, textureReadyRef, roConnected>>
velvetVars == <<ioConnected, visListener, inputListeners, staticResRef, lastTimeRef,
                ptrRef, smoothPtrRef, isOnScreenRef, lastDrawTimeRef,
                lastDrawElapsedRef, lastDrawPtrRef, lastTouchTimeRef>>
envVars == <<component, prefersReduced, ctxOk, isMobile, phase, now, ticks,
             lastFrame, pending, docHidden>>
histVars == <<op, paints, renders, lastElapsed, lastTexture, resizes, loads, loopElapsed,
              lastCall, prevCall>>
progVars == <<envVars, brushVars, velvetVars, histVars>>
pureVars == <<arg, ret>>
vars == <<progVars, pureVars>>

----------------------------------------------------------------------------
(* Bounds of the model *)

\* clock advances per behaviour of a brush canvas
MaxTicks == 5
\* clock advances per behaviour of the ambient canvas
VelvetMaxTicks == 2
\* resize notifications per behaviour
MaxResizes == 2

\* units per second: two units per 60 Hz frame
UnitsPerSecond == 2 * 60

NULL == 0 - 1

\* the amounts the clock can advance by: 1.1 s for the brush canvases
BrushSteps == {132}

\* container sizes the layout can report (CSS pixels)
Sizes == {<<0, 0>>, <<8, 4>>}

\* and for the ambient canvas: half a target frame interval (1/120 s on
\* desktop, 1/60 s on touch devices), or just over the touch idle time
VelvetSteps(mobile) == IF mobile THEN {2, 241} ELSE {1, 241}

\* pointer / touch positions relative to the container's left top, in 1/10 px
\* (right of the 8 px wide container, so that clamp acts)
PointerInputs == {<<90, 30>>}

BrushComponents == {"textured", "brush", "early"}

----------------------------------------------------------------------------
(* Program constants *)

\* part_001 / LiquidBrushStrokeCanvas.tsx: ANIM_END = 4.4 (s), in units
ANIM_END == 528
\* part_000: ANIMATION_END_TIME = 3.6 (s), in units
ANIMATION_END_TIME == 432

\* LiquidVelvetCanvas.tsx: SMOOTH_FACTOR = 0.055, in 1/100000
SMOOTH_FACTOR == 5500
\* PHASE_DELTA_THRESHOLD = 0.0004 (s), in 1/10000 s
PHASE_DELTA_THRESHOLD == 4
\* PTR_DELTA_THRESHOLD = 0.5 (px), in 1/10 px
PTR_DELTA_THRESHOLD == 5
\* MOBILE_SWAY_IDLE_MS = 2000 (ms), in units
MOBILE_SWAY_IDLE_MS == 240
\* MOBILE_SWAY_FREQ_X = 0.35, MOBILE_SWAY_FREQ_Y = 0.22 (rad/s), in 1/100
MOBILE_SWAY_FREQ_X == 35
MOBILE_SWAY_FREQ_Y == 22
\* MOBILE_SWAY_AMP_X = 0.06, MOBILE_SWAY_AMP_Y = 0.04, in 1/100
MOBILE_SWAY_AMP_X == 6
MOBILE_SWAY_AMP_Y == 4
\* part_001: N_PTS = 200, the bezier sample count
N_PTS == 200
\* drawStaticFrame: the elapsed time of the static frame, 2.5 (s), in units
STATIC_ELAPSED == 300
\* loop: dt is capped at 50 (ms), in units
DT_CAP == 6

Min(a, b) == IF a < b THEN a ELSE b
Max(a, b) == IF a > b THEN a ELSE b

----------------------------------------------------------------------------
(* Browser primitives *)

\* requestAnimationFrame: returns a handle distinct from every live one
\* (p: the callbacks still requested, r: the handle the component holds)
requestAnimationFrame(p, r) == CHOOSE i \in 1..(Cardinality(p) + 2) : i \notin p /\ i # r

\* cancelAnimationFrame(id): the callback list without that handle
cancelAnimationFrame(p, id) == p \ {id}

\* canvas.getContext('2d') returned an object
NoContextIgnored == FALSE

\* if (!ctx) return
NoContext == ~ctxOk

----------------------------------------------------------------------------
(* src/unnamed/part_001: the scene renderer.  Times are in ms, progress and *)
(* positions along a stroke in 1/1000.                                      *)

\* buildStrokes: the stroke definitions (hex as its six digits, the bezier
\* control points in 1/100, hw in 1/1000, t0 and dt in ms)
defs ==
  << [hex |-> <<12, 8, 9, 5, 6, 10>>, p0 |-> <<0 - 3, 86>>, c1 |-> <<12, 26>>,
      c2 |-> <<52, 4>>, p3 |-> <<103, 18>>, hw |-> 50, t0 |-> 0, dt |-> 1100],
     [hex |-> <<11, 14, 8, 10, 5, 14>>, p0 |-> <<0 - 3, 52>>, c1 |-> <<28, 18>>,
      c2 |-> <<64, 80>>, p3 |-> <<103, 44>>, hw |-> 42, t0 |-> 380, dt |-> 1000],
     [hex |-> <<13, 9, 11, 14, 10, 0>>, p0 |-> <<4, 6>>, c1 |-> <<26, 0>>,
      c2 |-> <<50, 18>>, p3 |-> <<88, 42>>, hw |-> 36, t0 |-> 760, dt |-> 900],
     [hex |-> <<10, 13, 7, 10, 5, 2>>, p0 |-> <<0 - 3, 88>>, c1 |-> <<26, 96>>,
      c2 |-> <<64, 76>>, p3 |-> <<103, 72>>, hw |-> 46, t0 |-> 1120, dt |-> 940],
     [hex |-> <<13, 0, 11, 2, 9, 6>>, p0 |-> <<54, 0>>, c1 |-> <<74, 4>>,
      c2 |-> <<88, 22>>, p3 |-> <<103, 48>>, hw |-> 33, t0 |-> 1500, dt |-> 780],
     [hex |-> <<11, 12, 8, 10, 6, 2>>, p0 |-> <<0, 10>>, c1 |-> <<4, 36>>,
      c2 |-> <<12, 62>>, p3 |-> <<28, 102>>, hw |-> 34, t0 |-> 1820, dt |-> 840],
     [hex |-> <<12, 8, 9, 5, 6, 10>>, p0 |-> <<14, 103>>, c1 |-> <<40, 82>>,
      c2 |-> <<70, 94>>, p3 |-> <<103, 96>>, hw |-> 40, t0 |-> 2120, dt |-> 880],
     [hex |-> <<11, 14, 8, 10, 5, 14>>, p0 |-> <<30, 30>>, c1 |-> <<46, 12>>,
      c2 |-> <<66, 28>>, p3 |-> <<82, 54>>, hw |-> 29, t0 |-> 2420, dt |-> 720] >>

----------------------------------------------------------------------------
(* src/unnamed/part_001: mulberry32.  A 32-bit word is <<hi, lo>>, its two  *)
(* 16-bit halves.                                                           *)

\* x + y, to 32 bits
Add32(x, y) ==
  LET lo == x[2] + y[2]
  IN <<(x[1] + y[1] + lo \div 65536) % 65536, lo % 65536>>

\* x >>> n for 0 < n < 16
Shr32(x, n) ==
  <<x[1] \div (2 ^ n), (x[1] % (2 ^ n)) * (2 ^ (16 - n)) + x[2] \div (2 ^ n)>>

\* a ^ b and a | b on n-bit numbers
RECURSIVE Xor(_, _, _)
Xor(a, b, n) ==
  IF n = 0 THEN 0 ELSE ((a + b) % 2) + 2 * Xor(a \div 2, b \div 2, n - 1)

RECURSIVE Or(_, _, _)
Or(a, b, n) ==
  IF n = 0 THEN 0 ELSE Max(a % 2, b % 2) + 2 * Or(a \div 2, b \div 2, n - 1)

Xor32(x, y) == <<Xor(x[1], y[1], 16), Xor(x[2], y[2], 16)>>

\* Math.imul(x, y): the low 32 bits of the product, by bytes
Imul(x, y) ==
  LET x0 == x[2] % 256
      x1 == x[2] \div 256
      x2 == x[1] % 256
      x3 == x[1] \div 256
      y0 == y[2] % 256
      y1 == y[2] \div 256
      y2 == y[1] % 256
      y3 == y[1] \div 256
      c0 == x0 * y0
      c1 == x0 * y1 + x1 * y0
      c2 == x0 * y2 + x1 * y1 + x2 * y0
      c3 == x0 * y3 + x1 * y2 + x2 * y1 + x3 * y0
      s0 == c0 + (c1 % 256) * 256
  IN <<(s0 \div 65536 + c1 \div 256 + c2 + (c3 % 256) * 256) % 65536, s0 % 65536>>

\* mulberry32(seed): the state a of the new generator
mulberry32(seed) == seed

\* the generator's state after n more calls: a = (a + 0x6d2b79f5) | 0 each
After(a, n) == Add32(a, Imul(<<n \div 65536, n % 65536>>, <<27947, 31221>>))

\* the number a call returns from the state it has stepped to, as the word
\* (t ^ (t >>> 14)) >>> 0 it divides by 4294967296
Mix(a) ==
  LET t1 == Imul(Xor32(a, Shr32(a, 15)), <<a[1], Or(a[2], 1, 16)>>)
      t2 == Xor32(Add32(t1, Imul(Xor32(t1, Shr32(t1, 7)), <<t1[1], Or(t1[2], 61, 16)>>)), t1)
  IN Xor32(t2, Shr32(t2, 14))

\* the value of the n-th call of a generator in state a
rng(a, n) == Mix(After(a, n))

----------------------------------------------------------------------------
(* src/unnamed/part_001: buildStrokes.  Random numbers enter the stroke     *)
(* data by their high 16 bits, in 1/65536.                                  *)

\* toRgb(hex)
toRgb(hex) == <<16 * hex[1] + hex[2], 16 * hex[3] + hex[4], 16 * hex[5] + hex[6]>>

\* a sampleBezier that stops before the end of the curve (i < n)
sampleBezierOpenEnd(p0, c1, c2, p3, n) ==
  [i \in 0..(n - 1) |->
     LET t == i
         u == n - i
     IN <<u * u * u * p0[1] + 3 * u * u * t * c1[1] + 3 * u * t * t * c2[1] + t * t * t * p3[1],
          u * u * u * p0[2] + 3 * u * u * t * c1[2] + 3 * u * t * t * c2[2] + t * t * t * p3[2]>>]

\* sampleBezier: the n + 1 points of the curve, in 1/100 * n^3
sampleBezier(p0, c1, c2, p3, n) ==
  [i \in 0..n |->
     LET t == i
         u == n - i
     IN <<u * u * u * p0[1] + 3 * u * u * t * c1[1] + 3 * u * t * t * c2[1] + t * t * t * p3[1],
          u * u * u * p0[2] + 3 * u * u * t * c1[2] + 3 * u * t * t * c2[2] + t * t * t * p3[2]>>]

\* an array of control values that stops at n / step
nCtrlShort(n, step) == n \div step

\* bakeNoise: nc, the number of control values, each one call of rng
nCtrl(n, step) == (n + step - 1) \div step + 2

\* bakeNoise: lo = Math.floor(i / step) and hi = Math.min(lo + 1, nc - 1), the
\* indices of the control values read for the output index i
ctrlLo(i, step) == i \div step
ctrlHi(i, n, step) == Min(ctrlLo(i, step) + 1, nCtrl(n, step) - 1)

\* bakeNoise(n, rng, step): the indices of ctrl read over the loop 0..n-1
bakeNoiseReads(n, step) ==
  UNION { {ctrlLo(i, step), ctrlHi(i, n, step)} : i \in 0..(n - 1) }

\* bakeNoise(n, rng, step): the control values rng() - 0.5 from the state a,
\* smoothed to n samples (f = fi - lo in 1/step, s = f * f * (3 - 2 * f))
bakeNoise(n, a, step) ==
  [i \in 0..(n - 1) |->
     LET lo == ctrlLo(i, step)
         hi == ctrlHi(i, n, step)
         f == i % step
         cLo == rng(a, lo + 1)[1] - 32768
         cHi == rng(a, hi + 1)[1] - 32768
     IN cLo + ((cHi - cLo) * f * f * (3 * step - 2 * f)) \div (step * step * step)]

\* bCount = 28 + Math.floor(rng() * 11), of the stroke a generator in state a
\* builds: the call after the two noise arrays
bCount(a) ==
  LET u == rng(a, 2 * nCtrl(N_PTS + 1, 7) + 1)
  IN 28 + (u[1] * 11 + (u[2] * 11) \div 65536) \div 65536

\* the calls one stroke makes: two noise arrays, bCount, four per bristle,
\* specFrac
Calls(a) == 2 * nCtrl(N_PTS + 1, 7) + 1 + 4 * bCount(a) + 1

\* one bristle, from the four calls after state a
Bristle(a) ==
  LET r == rng(a, 1)
      isRidge == r[1] > 26214 \/ (r[1] = 26214 /\ r[2] >= 26215)
  IN [frac |-> ((2 * rng(a, 2)[1] - 65536) * 93) \div 100,
      alpha |-> IF isRidge THEN (65536 * 6) \div 100 + rng(a, 3)[1] \div 10
                ELSE (65536 * 4) \div 100 + (rng(a, 3)[1] * 6) \div 100,
      lw |-> (65536 * 45) \div 100 + (rng(a, 4)[1] * 13) \div 10,
      isRidge |-> isRidge]

\* one element of defs.map: the stroke built from definition d by a generator
\* in state a
BuildStroke(d, a) ==
  [rgb |-> toRgb(d.hex),
   pts |-> sampleBezier(d.p0, d.c1, d.c2, d.p3, N_PTS),
   maxHW |-> d.hw, t0 |-> d.t0, dt |-> d.dt,
   noiseL |-> bakeNoise(N_PTS + 1, a, 7),
   noiseR |-> bakeNoise(N_PTS + 1, After(a, nCtrl(N_PTS + 1, 7)), 7),
   bristles |-> [j \in 1..bCount(a) |->
                   Bristle(After(a, 2 * nCtrl(N_PTS + 1, 7) + 1 + 4 * (j - 1)))],
   specFrac |-> 0 - ((65536 * 34) \div 100 + rng(a, Calls(a))[1] \div 10)]

\* the one element of a set
TheOne(S) == CHOOSE v \in S : TRUE

\* defs.map from definition k on, with the generator in state a and the
\* strokes built so far
RECURSIVE BuildFrom(_, _, _)
BuildFrom(k, a, built) ==
  IF k > Len(defs) THEN [strokes |-> built, a |-> a]
  ELSE TheOne({BuildFrom(k + 1, After(s, Calls(s)), Append(built, BuildStroke(defs[k], s)))
                 : s \in {a}})

\* a buildStrokes that goes on with the generator of the build before it
buildStrokesSharedGenerator ==
  BuildFrom(1, IF ret = <<>> THEN mulberry32(<<54183, 61897>>) ELSE ret[Len(ret)].a, <<>>)

\* buildStrokes(): rng = mulberry32(0xd3a7f1c9), then defs.map
buildStrokes == BuildFrom(1, mulberry32(<<54183, 61897>>), <<>>)

\* easeOutCubic(t) = 1 - (1 - t) ** 3
easeOutCubic(t) ==
  LET u == 1000 - t
  IN 1000 - (((u * u) \div 1000) * u) \div 1000

\* a raw progress that is not capped at 1
rawProgressUncapped(s, elapsed) == ((elapsed - s.t0) * 1000) \div s.dt

\* renderScene: Math.min(1, se / s.dt) with se = elapsed - s.t0
rawProgress(s, elapsed) == Min(1000, ((elapsed - s.t0) * 1000) \div s.dt)

\* renderScene: the eased progress of stroke s at elapsed
progress(s, elapsed) == easeOutCubic(rawProgress(s, elapsed))

\* what ** gives for a negative base and a fractional exponent
NaN == 0 - 1000000

\* -ln(x) for x in (0, 1] (1/1000), in 1/10000: halving steps down to
\* [0.5, 1], then the series of -ln(1 - s)
RECURSIVE NegLnSeries(_, _, _, _)
NegLnSeries(pow, s, k, n) ==
  IF n = 0 THEN 0
  ELSE pow \div k + NegLnSeries((pow * s) \div 10000, s, k + 1, n - 1)

RECURSIVE NegLn(_)
NegLn(x) ==
  IF x < 500 THEN 6931 + NegLn(2 * x)
  ELSE NegLnSeries((1000 - x) * 10, (1000 - x) * 10, 1, 12)

\* exp(-y) for y >= 0 (1/10000), in 1/10000
RECURSIVE ExpSeries(_, _, _, _)
ExpSeries(term, y, k, n) ==
  IF n = 0 THEN 0
  ELSE term + ExpSeries((0 - (term * y)) \div (10000 * k), y, k + 1, n - 1)

RECURSIVE ExpNeg(_)
ExpNeg(y) ==
  IF y >= 6931 THEN ExpNeg(y - 6931) \div 2
  ELSE ExpSeries(10000, y, 1, 9)

\* x ** p for x <= 1 (x in 1/1000, p in 1/100), in 1/1000
Pow(x, p) ==
  IF x < 0 THEN NaN
  ELSE IF x = 0 THEN 0
  ELSE ExpNeg((p * NegLn(x)) \div 100) \div 10

\* widthProfile(t, isLive), t in 1/1000
widthProfile(t, live) ==
  LET entry == IF t < 40 THEN Pow((t * 1000) \div 40, 55) ELSE 1000
      exitLen == IF live THEN 70 ELSE 200
      exitPow == IF live THEN 45 ELSE 115
      exit == IF t > 1000 - exitLen
              THEN Pow(((1000 - t) * 1000) \div exitLen, exitPow)
              ELSE 1000
  IN IF entry = NaN \/ exit = NaN THEN NaN ELSE (entry * exit) \div 1000

\* Math.round of a non-negative x given in 1/1000
Round(x) == (x + 500) \div 1000

\* a count of revealed samples without its floor of 3
countUnfloored(p) == Round(p * N_PTS) + 1

\* renderStroke: count = Math.max(3, Math.round(progress * (nPts - 1)) + 1),
\* with nPts = N_PTS + 1 sampled points
count(p) == Max(3, Round(p * N_PTS) + 1)

\* renderStroke: hwA, the half-widths of the revealed samples of stroke s at
\* progress p in a canvas cw wide (in 1/1000000 px)
hwA(s, p, cw) ==
  LET n == count(p)
      live == p < 960
      maxHW == s.hw * cw
  IN [i \in 0..(n - 1) |->
        LET t == IF n < 2 THEN 0 ELSE (i * 1000) \div (n - 1)
            w == widthProfile(t, live)
        IN IF w = NaN THEN NaN ELSE maxHW * w]

\* renderStroke at progress p: the indices at which it reads s.pts (the slice
\* and, of the slice, computeNormals at max(0, i - 1) and min(last, i + 1)
\* and the loop at i), nrm, s.noiseL and s.noiseR (the loop at i)
renderStrokeReads(p) ==
  LET n == count(p)
      last == n - 1
  IN [pts |-> UNION { {i, Max(0, i - 1), Min(last, i + 1)} : i \in 0..(n - 1) },
      nrm |-> 0..(n - 1),
      noise |-> 0..(n - 1)]

\* part_001: NOISE_AMP = 0.11, in 1/100
NOISE_AMP == 11

\* an edge noise of fixed amplitude, not scaled by the half-width
edgeNoiseUnscaled(noise, hw) == (noise * NOISE_AMP) \div 100

\* renderStroke: nL = s.noiseL[i] * hw * NOISE_AMP (noise in 1/65536, hw and
\* the result in 1/1000000 px)
edgeNoise(noise, hw) == (((noise * NOISE_AMP) \div 100) * hw) \div 65536

\* renderStroke: the boundary of the revealed samples of stroke s at progress
\* p in a canvas cw wide, with noise values nl and nr: per sample the
\* half-width and the distances hw + nL, hw + nR of the left and the right
\* boundary point from the centerline point along the normal
edges(s, p, cw, nl, nr) ==
  LET n == count(p)
      live == p < 960
      maxHW == s.hw * cw
  IN [i \in 0..(n - 1) |->
        LET t == IF n < 2 THEN 0 ELSE (i * 1000) \div (n - 1)
            w == widthProfile(t, live)
            hw == IF w = NaN THEN NaN ELSE maxHW * w
        IN [hw |-> hw,
            left |-> IF hw = NaN THEN NaN ELSE hw + edgeNoise(nl, hw),
            right |-> IF hw = NaN THEN NaN ELSE hw + edgeNoise(nr, hw)]]

\* textureStrength = 0.70, the default of the prop, in 1/1000
textureStrength == 700
\* part_000: NUM_SAMPLES = 140, the bezier sample count
NUM_SAMPLES == 140
\* LiquidVelvetCanvas.tsx: STROKE_SWAY_SPEED = 0.18, in 1/100
STROKE_SWAY_SPEED == 18

\* part_000: the stroke definitions (hw in 1/1000, start and dur in ms)
earlyDefs ==
  << [hw |-> 52, t0 |->    0, dt |-> 1050],
     [hw |-> 44, t0 |->  360, dt |->  960],
     [hw |-> 38, t0 |->  740, dt |->  880],
     [hw |-> 48, t0 |-> 1100, dt |->  920],
     [hw |-> 34, t0 |-> 1460, dt |->  760],
     [hw |-> 36, t0 |-> 1780, dt |->  820],
     [hw |-> 42, t0 |-> 2060, dt |->  860],
     [hw |-> 30, t0 |-> 2340, dt |->  680] >>

\* seconds (in units) to ms
Millis(elapsed) == (elapsed * 1000) \div UnitsPerSecond

\* renderStroke: what is drawn for stroke k at progress p: the revealed
\* samples, and the texture projection if a texture is given and the strength
\* is above 0.001
renderStroke(k, p, texture) == <<k, p, count(p), texture /\ textureStrength > 1>>

\* a loop over the strokes that also takes a stroke at its start time
StrokesDrawnFromStart(strokes, elapsed) ==
  SelectSeq([k \in 1..Len(strokes) |-> k],
            LAMBDA k : Millis(elapsed) - strokes[k].t0 >= 0)

\* renderScene: for (const s of strokes) { if (se <= 0) continue; ... }: the
\* strokes renderStroke is called for, in the order of the calls
StrokesDrawn(strokes, elapsed) ==
  SelectSeq([k \in 1..Len(strokes) |-> k],
            LAMBDA k : Millis(elapsed) - strokes[k].t0 > 0)

----------------------------------------------------------------------------
(* src/unnamed/part_001: the calls renderStroke makes on the canvas context *)
(* that draw or that decide how is drawn: <<"draw", pass>>, <<"blend", mode>>*)
(* for globalCompositeOperation = mode, <<"save", "">> and <<"restore", "">>. *)

\* renderStroke: blobA = 0.64 * Math.max(0, 1 - (progress / 0.92) ** 2.4), in
\* 1/1000
blobA(p) == (640 * Max(0, 1000 - Pow((p * 1000) \div 920, 240))) \div 1000

\* a blob drawn whatever its alpha and the phase of the stroke
blobDrawnAlways(p) == TRUE

\* renderStroke: the conditions of the wet blob pass
blobDrawn(p) == p < 960 /\ count(p) >= 2 /\ blobA(p) > 15

\* drawTextureProjected: nothing for an image that is not complete or a
\* bounding box under 2 px (wide: it is at least 2 px wide and high), else the
\* three passes between save and restore
drawTextureProjected(complete, wide) ==
  IF ~complete \/ ~wide THEN <<>>
  ELSE << <<"save", "">>,
          <<"blend", "multiply">>, <<"draw", "textureMultiply">>,
          <<"blend", "soft-light">>, <<"draw", "textureSoftLight">>,
          <<"blend", "overlay">>, <<"draw", "textureOverlay">>,
          <<"restore", "">> >>

\* specular passes that leave the screen blend mode on
specularKeepsScreen ==
  << <<"blend", "screen">>, <<"draw", "specularHalo">>, <<"draw", "specularGlint">> >>

\* renderStroke F: the specular halo and glint
specular ==
  << <<"blend", "screen">>, <<"draw", "specularHalo">>, <<"draw", "specularGlint">>,
     <<"blend", "source-over">> >>

\* renderStroke at progress p for a stroke with nb bristles; texture: an
\* image is given
renderStrokeCalls(nb, p, texture, complete, wide) ==
  << <<"save", "">>,
     <<"draw", "shadow">>, <<"draw", "body">>,
     <<"draw", "depth62">>, <<"draw", "depth26">> >>
  \o (IF texture /\ textureStrength > 1
      THEN drawTextureProjected(complete, wide) ELSE <<>>)
  \o << <<"draw", "meniscusLeft">>, <<"draw", "meniscusRight">> >>
  \o [i \in 1..nb |-> <<"draw", "bristle">>]
  \o specular
  \o (IF blobDrawn(p)
      THEN << <<"draw", "blob">>, <<"blend", "screen">>, <<"draw", "blobGlint">>,
              <<"blend", "source-over">> >>
      ELSE <<>>)
  \o << <<"restore", "">> >>

\* the canvas context executing calls from call i on: each draw with the
\* stroke k it belongs to and the blend mode in force, and the blend mode
\* left at the end; save pushes the blend mode, restore pops it
RECURSIVE Exec(_, _, _, _, _, _)
Exec(calls, i, k, blend, stack, out) ==
  IF i > Len(calls) THEN [ops |-> out, blend |-> blend]
  ELSE CASE calls[i][1] = "save" ->
              Exec(calls, i + 1, k, blend, <<blend>> \o stack, out)
         [] calls[i][1] = "restore" ->
              Exec(calls, i + 1, k, stack[1], Tail(stack), out)
         [] calls[i][1] = "blend" ->
              Exec(calls, i + 1, k, calls[i][2], stack, out)
         [] OTHER ->
              Exec(calls, i + 1, k, blend, stack, Append(out, <<k, calls[i][2], blend>>))

\* renderScene: the draws of the background and of the strokes from the j-th
\* drawn stroke on, each stroke with nb bristles
RECURSIVE SceneFrom(_, _, _, _, _, _, _, _, _)
SceneFrom(strokes, drawn, j, elapsed, nb, texture, complete, wide, done) ==
  IF j > Len(drawn) THEN done
  ELSE SceneFrom(strokes, drawn, j + 1, elapsed, nb, texture, complete, wide,
                 TheOne({Exec(renderStrokeCalls(nb, progress(strokes[drawn[j]], elapsed),
                                                texture, complete, wide),
                              1, drawn[j], d.blend, <<>>, d.ops) : d \in {done}}))

\* renderScene at elapsed (ms): what is drawn, in order
renderSceneCalls(strokes, elapsed, nb, texture, complete, wide) ==
  SceneFrom(strokes,
            SelectSeq([k \in 1..Len(strokes) |-> k], LAMBDA k : elapsed - strokes[k].t0 > 0),
            1, elapsed, nb, texture, complete, wide,
            Exec(<< <<"draw", "clearRect">>, <<"draw", "fillRect">> >>,
                 1, 0, "source-over", <<>>, <<>>))

\* the calls of renderStroke as drawing operations
StrokeOps(drawn) == [i \in 1..Len(drawn) |-> <<"renderStroke", drawn[i]>>]

\* a renderScene that paints over what the renders before it left
renderSceneOverPrevious(strokes, elapsed, cw, ch, texture) ==
  [clear |-> <<renders>>,
   ops |-> <<>>,
   strokes |-> [k \in {j \in 1..Len(strokes) : Millis(elapsed) - strokes[j].t0 > 0} |->
                  renderStroke(k, progress(strokes[k], Millis(elapsed)), texture)]]

\* renderScene: clear, fill, and the strokes that have started (ops: the
\* drawing operations in the order they are issued)
renderScene(strokes, elapsed, cw, ch, texture) ==
  [clear |-> <<cw, ch>>,
   ops |-> <<<<"clearRect", 0>>, <<"fillRect", 0>>>>
             \o StrokeOps(StrokesDrawn(strokes, elapsed)),
   strokes |-> [k \in {j \in 1..Len(strokes) : Millis(elapsed) - strokes[j].t0 > 0} |->
                  renderStroke(k, progress(strokes[k], Millis(elapsed)), texture)]]

\* LiquidBrushStrokeCanvas.tsx renderScene: fill, and the strokes that have
\* started; there is no texture
brushRenderScene(strokes, elapsed, cw, ch) ==
  [clear |-> <<cw, ch>>,
   ops |-> <<<<"fillRect", 0>>>> \o StrokeOps(StrokesDrawn(strokes, elapsed)),
   strokes |-> [k \in {j \in 1..Len(strokes) : Millis(elapsed) - strokes[j].t0 > 0} |->
                  renderStroke(k, progress(strokes[k], Millis(elapsed)), FALSE)]]

\* part_000 drawScene / drawStrokeAtProgress
earlyDrawScene(strokes, elapsed, w, h) ==
  [clear |-> <<w, h>>,
   ops |-> <<<<"fillRect", 0>>>> \o StrokeOps(StrokesDrawn(strokes, elapsed)),
   strokes |-> [k \in {j \in 1..Len(strokes) : Millis(elapsed) - strokes[j].t0 > 0} |->
                  LET p == progress(strokes[k], Millis(elapsed))
                  IN <<k, p, Max(3, Round(p * NUM_SAMPLES) + 1), FALSE>>]]

\* LiquidVelvetCanvas.tsx drawScene: the fill, the sway angle of the strokes
\* (elapsed * STROKE_SWAY_SPEED) and the beauty light at the pointer
drawScene(w, h, elapsed, ptrX, ptrY) ==
  [clear |-> <<w, h>>,
   sway |-> elapsed * STROKE_SWAY_SPEED,
   light |-> <<ptrX, ptrY, w * 25>>]

----------------------------------------------------------------------------
(* Rendering: what a call of renderScene / drawScene leaves in the history. *)
(* The size and the pointer are those the handler finds in sizeRef and      *)
(* smoothPtrRef when it draws.                                              *)

NoCall == <<>>

RenderScene(elapsed, texture) ==
  /\ paints' = 1
  /\ renders' = renders + 1
  /\ lastElapsed' = elapsed
  /\ lastTexture' = texture
  /\ lastCall' =
       [elapsed |-> elapsed, size |-> sizeRef',
        ptr |-> IF component = "velvet" THEN smoothPtrRef' ELSE <<0, 0>>,
        texture |-> texture,
        out |-> CASE component = "velvet" ->
                       drawScene(sizeRef'[1], sizeRef'[2], elapsed,
                                 smoothPtrRef'[1], smoothPtrRef'[2])
                  [] component = "early" ->
                       earlyDrawScene(earlyDefs, elapsed, sizeRef'[1], sizeRef'[2])
                  [] component = "brush" ->
                       brushRenderScene(defs, elapsed, sizeRef'[1], sizeRef'[2])
                  [] OTHER ->
                       renderScene(defs, elapsed, sizeRef'[1], sizeRef'[2], texture)]
  /\ prevCall' = lastCall

NoRender ==
  /\ paints' = 0
  /\ UNCHANGED <<renders, lastElapsed, lastTexture, lastCall, prevCall>>

----------------------------------------------------------------------------
(* src/unnamed/part_001: the textured brush canvas *)

\* drawFrame(elapsed): returns early without strokes; the texture is passed
\* only when textureReadyRef is set
drawFrame(strokes, ready, texture, elapsed) ==
  IF ~strokes THEN NoRender
  ELSE RenderScene(elapsed, ready /\ texture)

\* a loop that never ends
TexLoopEndsNever(elapsed) == FALSE

\* a loop that ends only after ANIM_END has been exceeded
TexLoopEndsLate(elapsed) == elapsed > ANIM_END

\* loop: the animation ends at the first callback with elapsed >= ANIM_END
TexLoopEnds(elapsed) == elapsed >= ANIM_END

\* loop(ts); p is the browser's callback list once this callback was taken
TexLoop(ts, p) ==
  IF cancelled
  THEN /\ NoRender
       /\ pending' = p
       /\ UNCHANGED <<rafRef, t0Ref, doneRef>>
  ELSE LET t0 == IF t0Ref = NULL THEN ts ELSE t0Ref
           elapsed == ts - t0
       IN /\ t0Ref' = t0
          /\ IF TexLoopEnds(elapsed)
             THEN /\ drawFrame(strokesRef, textureReadyRef, textureRef, ANIM_END)
                  /\ doneRef' = TRUE
                  /\ rafRef' = 0
                  /\ pending' = p
             ELSE /\ drawFrame(strokesRef, textureReadyRef, textureRef, elapsed)
                  /\ rafRef' = requestAnimationFrame(p, rafRef)
                  /\ pending' = p \cup {rafRef'}
                  /\ UNCHANGED doneRef

\* a resize that measures elapsed from the time of the resize
TexResizeElapsedFromNow(t0, t) == Min(t - t, ANIM_END)

\* a resize that does not cap the elapsed time at ANIM_END
TexResizeElapsedUncapped(t0, t) == t - (IF t0 = NULL THEN t ELSE t0)

\* the elapsed time a resize repaints at while the animation runs
TexResizeElapsed(t0, t) == Min(t - (IF t0 = NULL THEN t ELSE t0), ANIM_END)

\* useEffect body: mount
TexInit(sz) ==
  IF NoContext
  THEN /\ phase' = "aborted"
       /\ NoRender
       /\ UNCHANGED <<brushVars, pending>>
  ELSE /\ phase' = "mounted"
       /\ strokesRef' = TRUE
       /\ t0Ref' = NULL
       /\ cancelled' = FALSE
       /\ img' = "loading"
       /\ sizeRef' = sz
       /\ IF prefersReduced
          THEN /\ drawFrame(TRUE, textureReadyRef, textureRef, ANIM_END)
               /\ doneRef' = TRUE
               /\ UNCHANGED <<rafRef, pending>>
          ELSE /\ NoRender
               /\ doneRef' = FALSE
               /\ rafRef' = requestAnimationFrame(pending, rafRef)
               /\ pending' = pending \cup {rafRef'}
       /\ roConnected' = TRUE
       /\ UNCHANGED <<textureRef, textureReadyRef>>

\* an onload that repaints from the start of the animation
TexOnloadRestarts ==
  IF cancelled
  THEN /\ NoRender
       /\ UNCHANGED <<textureRef, textureReadyRef, loads>>
  ELSE /\ textureRef' = TRUE
       /\ textureReadyRef' = TRUE
       /\ IF sizeRef[1] # 0 /\ sizeRef[2] # 0 /\ strokesRef
          THEN /\ RenderScene(0, TRUE)
               /\ loads' = loads + 1
          ELSE /\ NoRender
               /\ UNCHANGED loads

\* img.onload
TexOnload ==
  IF cancelled
  THEN /\ NoRender
       /\ UNCHANGED <<textureRef, textureReadyRef, loads>>
  ELSE /\ textureRef' = TRUE
       /\ textureReadyRef' = TRUE
       /\ IF sizeRef[1] # 0 /\ sizeRef[2] # 0 /\ strokesRef
          THEN /\ RenderScene(IF prefersReduced THEN ANIM_END
                              ELSE TexResizeElapsed(t0Ref, now), TRUE)
               /\ loads' = loads + 1
          ELSE /\ NoRender
               /\ UNCHANGED loads

\* img.onerror
TexOnerror ==
  /\ NoRender
  /\ IF cancelled
     THEN UNCHANGED <<textureRef, textureReadyRef>>
     ELSE /\ textureRef' = FALSE
          /\ textureReadyRef' = FALSE

\* ResizeObserver callback
TexResize(sz) ==
  /\ sizeRef' = sz
  /\ IF prefersReduced \/ doneRef
     THEN drawFrame(strokesRef, textureReadyRef, textureRef, ANIM_END)
     ELSE drawFrame(strokesRef, textureReadyRef, textureRef,
                    TexResizeElapsed(t0Ref, now))

\* a cleanup that leaves the closure's cancelled flag unset
TexCleanupKeepsClosure ==
  /\ cancelled' = FALSE
  /\ pending' = IF rafRef # 0 THEN cancelAnimationFrame(pending, rafRef) ELSE pending
  /\ rafRef' = 0
  /\ roConnected' = FALSE

\* useEffect cleanup: unmount
TexCleanup ==
  /\ cancelled' = TRUE
  /\ pending' = IF rafRef # 0 THEN cancelAnimationFrame(pending, rafRef) ELSE pending
  /\ rafRef' = 0
  /\ roConnected' = FALSE

----------------------------------------------------------------------------
(* src/components/LiquidBrushStrokeCanvas.tsx: the brush canvas *)

\* frame(elapsed)
frame(strokes, elapsed) ==
  IF strokes THEN RenderScene(elapsed, FALSE) ELSE NoRender

\* loop: the animation ends at the first callback with elapsed >= ANIM_END
BrushLoopEnds(elapsed) == elapsed >= ANIM_END

\* loop(ts)
BrushLoop(ts, p) ==
  LET t0 == IF t0Ref = NULL THEN ts ELSE t0Ref
      elapsed == ts - t0
  IN /\ t0Ref' = t0
     /\ IF BrushLoopEnds(elapsed)
        THEN /\ frame(strokesRef, ANIM_END)
             /\ doneRef' = TRUE
             /\ rafRef' = 0
             /\ pending' = p
        ELSE /\ frame(strokesRef, elapsed)
             /\ rafRef' = requestAnimationFrame(p, rafRef)
             /\ pending' = p \cup {rafRef'}
             /\ UNCHANGED doneRef

\* useEffect body: mount
BrushInit(sz) ==
  IF NoContext
  THEN /\ phase' = "aborted"
       /\ NoRender
       /\ UNCHANGED <<brushVars, pending>>
  ELSE /\ phase' = "mounted"
       /\ strokesRef' = TRUE
       /\ sizeRef' = sz
       /\ IF prefersReduced
          THEN /\ frame(TRUE, ANIM_END)
               /\ UNCHANGED <<rafRef, pending>>
          ELSE /\ NoRender
               /\ rafRef' = requestAnimationFrame(pending, rafRef)
               /\ pending' = pending \cup {rafRef'}
       /\ roConnected' = TRUE
       /\ UNCHANGED <<t0Ref, doneRef, cancelled, img, textureRef, textureReadyRef>>

\* ResizeObserver callback
BrushResize(sz) ==
  /\ sizeRef' = sz
  /\ IF doneRef \/ prefersReduced
     THEN frame(strokesRef, ANIM_END)
     ELSE IF t0Ref # NULL
          THEN frame(strokesRef, Min(now - t0Ref, ANIM_END))
          ELSE NoRender

\* useEffect cleanup: unmount (rafRef keeps the cancelled handle)
BrushCleanup ==
  /\ pending' = IF rafRef # 0 THEN cancelAnimationFrame(pending, rafRef) ELSE pending
  /\ roConnected' = FALSE
  /\ UNCHANGED <<rafRef, cancelled>>

----------------------------------------------------------------------------
(* src/unnamed/part_000: the first brush canvas *)

\* renderFrame(elapsed)
renderFrame(strokes, elapsed) ==
  IF ~strokes THEN NoRender ELSE RenderScene(elapsed, FALSE)

\* loop: the animation ends at the first callback with elapsed >= ANIMATION_END_TIME
EarlyLoopEnds(elapsed) == elapsed >= ANIMATION_END_TIME

\* loop(time)
EarlyLoop(time, p) ==
  LET t0 == IF t0Ref = NULL THEN time ELSE t0Ref
      elapsed == time - t0
  IN /\ t0Ref' = t0
     /\ IF EarlyLoopEnds(elapsed)
        THEN /\ renderFrame(strokesRef, ANIMATION_END_TIME)
             /\ doneRef' = TRUE
             /\ rafRef' = 0
             /\ pending' = p
        ELSE /\ renderFrame(strokesRef, elapsed)
             /\ rafRef' = requestAnimationFrame(p, rafRef)
             /\ pending' = p \cup {rafRef'}
             /\ UNCHANGED doneRef

\* useEffect body: mount
EarlyInit(sz) ==
  IF NoContext
  THEN /\ phase' = "aborted"
       /\ NoRender
       /\ UNCHANGED <<brushVars, pending>>
  ELSE /\ phase' = "mounted"
       /\ strokesRef' = TRUE
       /\ sizeRef' = sz
       /\ IF prefersReduced
          THEN /\ renderFrame(TRUE, ANIMATION_END_TIME)
               /\ UNCHANGED <<rafRef, pending>>
          ELSE /\ NoRender
               /\ rafRef' = requestAnimationFrame(pending, rafRef)
               /\ pending' = pending \cup {rafRef'}
       /\ roConnected' = TRUE
       /\ UNCHANGED <<t0Ref, doneRef, cancelled, img, textureRef, textureReadyRef>>

\* ResizeObserver callback
EarlyResize(sz) ==
  /\ sizeRef' = sz
  /\ IF doneRef \/ prefersReduced
     THEN renderFrame(strokesRef, ANIMATION_END_TIME)
     ELSE IF t0Ref # NULL
          THEN renderFrame(strokesRef, Min(now - t0Ref, ANIMATION_END_TIME))
          ELSE NoRender

\* useEffect cleanup: unmount
EarlyCleanup ==
  /\ pending' = IF rafRef # 0 THEN cancelAnimationFrame(pending, rafRef) ELSE pending
  /\ rafRef' = 0
  /\ roConnected' = FALSE
  /\ UNCHANGED cancelled

----------------------------------------------------------------------------
(* src/components/LiquidVelvetCanvas.tsx: the ambient canvas *)

Abs(x) == IF x < 0 THEN 0 - x ELSE x

\* clamp(v, lo, hi)
clamp(v, lo, hi) == IF v < lo THEN lo ELSE IF v > hi THEN hi ELSE v

\* -ln(1 - s) by its series, s and the result in 1/100000
NegLnOneMinus(s) ==
  LET s2 == (s * s) \div 100000
      s3 == (s2 * s) \div 100000
      s4 == (s3 * s) \div 100000
  IN s + s2 \div 2 + s3 \div 3 + s4 \div 4

\* loop: dt / 16.67 in 1/10000, dt = 16.67 ms without a previous callback,
\* else min(time - lastTime, 50 ms)
DtRatio(last, time) ==
  IF last = NULL THEN 10000
  ELSE (Min(time - last, DT_CAP) * 100000000) \div 20004

\* loop: alpha = 1 - (1 - SMOOTH_FACTOR) ^ (dt / 16.67), in 1/100000,
\* as 1 - exp(-z) = z - z^2/2 + z^3/6 with z = -(dt / 16.67) ln(1 - SMOOTH_FACTOR)
SmoothAlpha(last, time) ==
  LET z == (DtRatio(last, time) * NegLnOneMinus(SMOOTH_FACTOR)) \div 10000
      z2 == (z * z) \div 100000
      z3 == (z2 * z) \div 100000
  IN z - z2 \div 2 + z3 \div 6

\* sine and cosine of a (1/1000 rad) in 1/1000, by their series
RECURSIVE SeriesSum(_, _, _, _)
SeriesSum(term, a2, k, n) ==
  IF n = 0 THEN 0
  ELSE term + SeriesSum((0 - (term * a2)) \div (1000 * k * (k + 1)), a2, k + 2, n - 1)

Sin(a) == SeriesSum(a, (a * a) \div 1000, 2, 7)
Cos(a) == SeriesSum(1000, (a * a) \div 1000, 1, 7)

\* loop: the mobile sway target, in 1/10 px, for elapsed (units) in a container
\* of size sz (px): sw / 2 + sin(elapsed * FREQ_X) * sw * AMP_X, and so for y
SwayTarget(elapsed, sz) ==
  <<sz[1] * 5
      + (Sin((elapsed * MOBILE_SWAY_FREQ_X * 10) \div UnitsPerSecond) * sz[1] * MOBILE_SWAY_AMP_X) \div 10000,
    sz[2] * 5
      + (Cos((elapsed * MOBILE_SWAY_FREQ_Y * 10) \div UnitsPerSecond) * sz[2] * MOBILE_SWAY_AMP_Y) \div 10000>>

\* loop: sp += (tp - sp) * alpha, per axis
Smooth(sp, tp, alpha) ==
  <<sp[1] + ((tp[1] - sp[1]) * alpha) \div 100000,
    sp[2] + ((tp[2] - sp[2]) * alpha) \div 100000>>

\* targetFrameMs = isMobile ? 1000 / 30 : 1000 / 60, as frames per second
TargetFps == IF isMobile THEN 30 ELSE 60

\* a loop that takes every frame to be due
FrameDueAlways(lastDraw, time) == TRUE

\* loop: sinceLastDraw >= targetFrameMs (sinceLastDraw is Infinity without a paint)
FrameDue(lastDraw, time) ==
  lastDraw = NULL \/ (time - lastDraw) * TargetFps >= UnitsPerSecond

\* loop: the phase or the smoothed pointer moved beyond its epsilon
MeaningfulChange(elapsed, sp) ==
  \/ Abs(elapsed - lastDrawElapsedRef) * 10000 > PHASE_DELTA_THRESHOLD * UnitsPerSecond
  \/ Abs(sp[1] - lastDrawPtrRef[1]) > PTR_DELTA_THRESHOLD
  \/ Abs(sp[2] - lastDrawPtrRef[2]) > PTR_DELTA_THRESHOLD

\* setSize(): the size and its cached resources, the pointer back to the centre
setSize(sz) ==
  /\ sizeRef' = sz
  /\ staticResRef' = TRUE
  /\ ptrRef' = <<sz[1] * 5, sz[2] * 5>>
  /\ smoothPtrRef' = <<sz[1] * 5, sz[2] * 5>>

\* the loop state a handler leaves alone
loopUntouched == UNCHANGED <<lastTimeRef, rafRef, pending, t0Ref>>

\* a startLoop that requests a callback whether or not one is requested
startLoopUnguarded ==
  /\ lastTimeRef' = NULL
  /\ rafRef' = requestAnimationFrame(pending, rafRef)
  /\ pending' = pending \cup {rafRef'}
  /\ UNCHANGED t0Ref

\* a startLoop that restarts the clock of the animation
startLoopResetsStart ==
  IF rafRef # 0
  THEN loopUntouched
  ELSE /\ lastTimeRef' = NULL
       /\ rafRef' = requestAnimationFrame(pending, rafRef)
       /\ pending' = pending \cup {rafRef'}
       /\ t0Ref' = NULL

\* startLoop(): nothing when a callback is already requested; startTimeRef is
\* preserved, lastTimeRef is reset
startLoop ==
  IF rafRef # 0
  THEN loopUntouched
  ELSE /\ lastTimeRef' = NULL
       /\ rafRef' = requestAnimationFrame(pending, rafRef)
       /\ pending' = pending \cup {rafRef'}
       /\ UNCHANGED t0Ref

\* stopLoop()
stopLoop ==
  /\ pending' = IF rafRef # 0 THEN cancelAnimationFrame(pending, rafRef) ELSE pending
  /\ rafRef' = 0
  /\ UNCHANGED <<lastTimeRef, t0Ref>>

\* a static frame drawn at the start of the animation
drawStaticFrameAtZero(scene, res) ==
  IF scene /\ res THEN RenderScene(0, FALSE) ELSE NoRender

\* drawStaticFrame(); scene and res are sceneRef.current and staticResRef.current
drawStaticFrame(scene, res) ==
  IF scene /\ res THEN RenderScene(STATIC_ELAPSED, FALSE) ELSE NoRender

\* loop(time); p is the browser's callback list once this callback was taken
VelvetLoop(time, p) ==
  LET start == IF t0Ref = NULL THEN time ELSE t0Ref
      elapsed == time - start
      alpha == SmoothAlpha(lastTimeRef, time)
      sway == isMobile /\ (lastTouchTimeRef = NULL
                           \/ time - lastTouchTimeRef > MOBILE_SWAY_IDLE_MS)
      tp == IF sway THEN SwayTarget(elapsed, sizeRef) ELSE ptrRef
      sp == Smooth(smoothPtrRef, tp, alpha)
  IN /\ t0Ref' = start
     /\ loopElapsed' = elapsed
     /\ lastTimeRef' = time
     /\ ptrRef' = tp
     /\ smoothPtrRef' = sp
     /\ IF FrameDue(lastDrawTimeRef, time) /\ MeaningfulChange(elapsed, sp)
           /\ strokesRef /\ staticResRef
        THEN /\ RenderScene(elapsed, FALSE)
             /\ lastDrawTimeRef' = time
             /\ lastDrawElapsedRef' = elapsed
             /\ lastDrawPtrRef' = sp
        ELSE /\ NoRender
             /\ UNCHANGED <<lastDrawTimeRef, lastDrawElapsedRef, lastDrawPtrRef>>
     /\ rafRef' = requestAnimationFrame(p, rafRef)
     /\ pending' = p \cup {rafRef'}

\* useEffect body: mount
VelvetInit(sz) ==
  IF NoContext
  THEN /\ phase' = "aborted"
       /\ NoRender
       /\ UNCHANGED <<brushVars, velvetVars>>
  ELSE /\ phase' = "mounted"
       /\ strokesRef' = TRUE
       /\ setSize(sz)
       /\ IF prefersReduced THEN drawStaticFrame(TRUE, TRUE) ELSE NoRender
       /\ inputListeners' = ~prefersReduced
       /\ roConnected' = TRUE
       /\ ioConnected' = TRUE
       /\ visListener' = TRUE
       /\ UNCHANGED <<rafRef, t0Ref, doneRef, cancelled, img, textureRef, textureReadyRef,
                      lastTimeRef, isOnScreenRef, lastDrawTimeRef, lastDrawElapsedRef,
                      lastDrawPtrRef, lastTouchTimeRef>>

\* onPointerMove(e); pos is the event position relative to the container
onPointerMove(pos) ==
  ptrRef' = <<clamp(pos[1], 0, sizeRef[1] * 10), clamp(pos[2], 0, sizeRef[2] * 10)>>

\* onTouchMove(e); touches is e.touches.length, pos the first touch
onTouchMove(touches, pos) ==
  IF touches > 0
  THEN /\ ptrRef' = <<clamp(pos[1], 0, sizeRef[1] * 10), clamp(pos[2], 0, sizeRef[2] * 10)>>
       /\ lastTouchTimeRef' = now
  ELSE UNCHANGED <<ptrRef, lastTouchTimeRef>>

\* ResizeObserver callback
VelvetResize(sz) ==
  /\ setSize(sz)
  /\ IF prefersReduced THEN drawStaticFrame(strokesRef, TRUE) ELSE NoRender

\* IntersectionObserver callback; b is entries[0].isIntersecting
VelvetIntersection(b) ==
  /\ isOnScreenRef' = b
  /\ IF b
     THEN IF ~prefersReduced THEN startLoop ELSE loopUntouched
     ELSE stopLoop

\* a visibility handler that stops the loop and never starts it again
onVisibilityChangeNeverResumes(hidden) ==
  IF hidden THEN stopLoop ELSE loopUntouched

\* a visibility handler that resumes without asking for the motion preference
onVisibilityChangeIgnoresPreference(hidden) ==
  IF hidden
  THEN stopLoop
  ELSE IF isOnScreenRef THEN startLoop ELSE loopUntouched

\* onVisibilityChange(); hidden is document.hidden
onVisibilityChange(hidden) ==
  IF hidden
  THEN stopLoop
  ELSE IF ~prefersReduced /\ isOnScreenRef THEN startLoop ELSE loopUntouched

\* useEffect cleanup: unmount
VelvetCleanup ==
  /\ stopLoop
  /\ roConnected' = FALSE
  /\ ioConnected' = FALSE
  /\ visListener' = FALSE
  /\ inputListeners' = FALSE

----------------------------------------------------------------------------
(* The state before the effect runs.  The refs of part_001 outlive a run of *)
(* the effect (it runs again when textureSrc, textureStrength or background *)
(* change); the effect resets strokesRef, doneRef and t0Ref, its cleanup    *)
(* nulls rafRef, resize() sets sizeRef, and textureRef / textureReadyRef    *)
(* keep what the onload or onerror of an earlier run left in them.          *)

ProgInit ==
  /\ component \in BrushComponents \cup {"velvet"}
  /\ prefersReduced \in BOOLEAN
  /\ ctxOk \in BOOLEAN
  /\ isMobile \in (IF component = "velvet" THEN BOOLEAN ELSE {FALSE})
  /\ docHidden \in (IF component = "velvet" THEN BOOLEAN ELSE {FALSE})
  /\ phase = "fresh"
  /\ now = 0
  /\ ticks = 0
  /\ lastFrame = NULL
  /\ pending = {}
  /\ rafRef = 0
  /\ t0Ref = NULL
  /\ doneRef = FALSE
  /\ strokesRef = FALSE
  /\ sizeRef = <<0, 0>>
  /\ cancelled = FALSE
  /\ img = "none"
  /\ textureReadyRef \in (IF component = "textured" THEN BOOLEAN ELSE {FALSE})
  /\ textureRef = textureReadyRef
  /\ roConnected = FALSE
  /\ ioConnected = FALSE
  /\ visListener = FALSE
  /\ inputListeners = FALSE
  /\ staticResRef = FALSE
  /\ lastTimeRef = NULL
  /\ ptrRef = <<0, 0>>
  /\ smoothPtrRef = <<0, 0>>
  /\ isOnScreenRef = FALSE
  /\ lastDrawTimeRef = NULL
  /\ lastDrawElapsedRef = 0
  /\ lastDrawPtrRef = <<0, 0>>
  /\ lastTouchTimeRef = NULL
  /\ op = "init"
  /\ paints = 0
  /\ renders = 0
  /\ lastElapsed = NULL
  /\ lastTexture = FALSE
  /\ resizes = 0
  /\ loads = 0
  /\ loopElapsed = NULL
  /\ lastCall = NoCall
  /\ prevCall = NoCall

Init ==
  /\ ProgInit
  /\ arg = <<"none">>
  /\ ret = <<>>

fixedVars == <<component, prefersReduced, ctxOk, isMobile>>

----------------------------------------------------------------------------
(* The browser: the clock *)

Tick ==
  /\ phase \in {"mounted", "aborted"}
  /\ ticks < (IF component = "velvet" THEN VelvetMaxTicks ELSE MaxTicks)
  /\ \E d \in (IF component = "velvet" THEN VelvetSteps(isMobile) ELSE BrushSteps) :
       now' = now + d
  /\ ticks' = ticks + 1
  /\ op' = "tick"
  /\ UNCHANGED pureVars
  /\ NoRender
  /\ UNCHANGED <<fixedVars, phase, lastFrame, pending, docHidden, brushVars, velvetVars,
                 resizes, loads, loopElapsed>>

----------------------------------------------------------------------------
(* The browser runs the handlers of the textured brush canvas *)

MountTextured ==
  /\ component = "textured" /\ phase = "fresh"
  /\ \E sz \in Sizes : TexInit(sz)
  /\ op' = "mount"
  /\ UNCHANGED pureVars
  /\ UNCHANGED <<fixedVars, now, ticks, lastFrame, docHidden, velvetVars,
                 resizes, loads, loopElapsed>>

FrameTextured ==
  /\ component = "textured"
  /\ now > lastFrame
  /\ UNCHANGED <<fixedVars, phase, now, ticks, docHidden, velvetVars, resizes, loads,
                 strokesRef, sizeRef, cancelled, img, textureRef, textureReadyRef,
                 roConnected>>
  /\ \E id \in pending : TexLoop(now, pending \ {id})
  /\ lastFrame' = now
  /\ op' = "loop"
  /\ UNCHANGED pureVars
  /\ loopElapsed' = IF cancelled THEN loopElapsed ELSE now - t0Ref'

ResizeTextured ==
  /\ component = "textured" /\ roConnected
  /\ resizes < MaxResizes
  /\ \E sz \in Sizes : TexResize(sz)
  /\ resizes' = resizes + 1
  /\ op' = "resize"
  /\ UNCHANGED pureVars
  /\ UNCHANGED <<envVars, velvetVars, loads, loopElapsed,
                 rafRef, t0Ref, doneRef, strokesRef, cancelled, img, textureRef,
                 textureReadyRef, roConnected>>

LoadTextured ==
  /\ component = "textured" /\ img = "loading"
  /\ img' = "loaded"
  /\ UNCHANGED <<envVars, velvetVars, resizes, loopElapsed,
                 rafRef, t0Ref, doneRef, strokesRef, sizeRef, cancelled, roConnected>>
  /\ TexOnload
  /\ op' = "onload"
  /\ UNCHANGED pureVars

ErrorTextured ==
  /\ component = "textured" /\ img = "loading"
  /\ img' = "failed"
  /\ TexOnerror
  /\ op' = "onerror"
  /\ UNCHANGED pureVars
  /\ UNCHANGED <<envVars, velvetVars, resizes, loads, loopElapsed,
                 rafRef, t0Ref, doneRef, strokesRef, sizeRef, cancelled, roConnected>>

UnmountTextured ==
  /\ component = "textured" /\ phase = "mounted"
  /\ TexCleanup
  /\ phase' = "cleaned"
  /\ op' = "cleanup"
  /\ UNCHANGED pureVars
  /\ NoRender
  /\ UNCHANGED <<fixedVars, now, ticks, lastFrame, docHidden, velvetVars, resizes, loads,
                 loopElapsed, t0Ref, doneRef, strokesRef, sizeRef, img, textureRef,
                 textureReadyRef>>

----------------------------------------------------------------------------
(* The browser runs the handlers of the brush canvas *)

MountBrush ==
  /\ component = "brush" /\ phase = "fresh"
  /\ \E sz \in Sizes : BrushInit(sz)
  /\ op' = "mount"
  /\ UNCHANGED pureVars
  /\ UNCHANGED <<fixedVars, now, ticks, lastFrame, docHidden, velvetVars,
                 resizes, loads, loopElapsed>>

FrameBrush ==
  /\ component = "brush"
  /\ now > lastFrame
  /\ UNCHANGED <<fixedVars, phase, now, ticks, docHidden, velvetVars, resizes, loads,
                 strokesRef, sizeRef, cancelled, img, textureRef, textureReadyRef,
                 roConnected>>
  /\ \E id \in pending : BrushLoop(now, pending \ {id})
  /\ lastFrame' = now
  /\ op' = "loop"
  /\ UNCHANGED pureVars
  /\ loopElapsed' = now - t0Ref'

ResizeBrush ==
  /\ component = "brush" /\ roConnected
  /\ resizes < MaxResizes
  /\ \E sz \in Sizes : BrushResize(sz)
  /\ resizes' = resizes + 1
  /\ op' = "resize"
  /\ UNCHANGED pureVars
  /\ UNCHANGED <<envVars, velvetVars, loads, loopElapsed,
                 rafRef, t0Ref, doneRef, strokesRef, cancelled, img, textureRef,
                 textureReadyRef, roConnected>>

UnmountBrush ==
  /\ component = "brush" /\ phase = "mounted"
  /\ BrushCleanup
  /\ phase' = "cleaned"
  /\ op' = "cleanup"
  /\ UNCHANGED pureVars
  /\ NoRender
  /\ UNCHANGED <<fixedVars, now, ticks, lastFrame, docHidden, velvetVars, resizes, loads,
                 loopElapsed, t0Ref, doneRef, strokesRef, sizeRef, img, textureRef,
                 textureReadyRef>>

----------------------------------------------------------------------------
(* The browser runs the handlers of the first brush canvas *)

MountEarly ==
  /\ component = "early" /\ phase = "fresh"
  /\ \E sz \in Sizes : EarlyInit(sz)
  /\ op' = "mount"
  /\ UNCHANGED pureVars
  /\ UNCHANGED <<fixedVars, now, ticks, lastFrame, docHidden, velvetVars,
                 resizes, loads, loopElapsed>>

FrameEarly ==
  /\ component = "early"
  /\ now > lastFrame
  /\ UNCHANGED <<fixedVars, phase, now, ticks, docHidden, velvetVars, resizes, loads,
                 strokesRef, sizeRef, cancelled, img, textureRef, textureReadyRef,
                 roConnected>>
  /\ \E id \in pending : EarlyLoop(now, pending \ {id})
  /\ lastFrame' = now
  /\ op' = "loop"
  /\ UNCHANGED pureVars
  /\ loopElapsed' = now - t0Ref'

ResizeEarly ==
  /\ component = "early" /\ roConnected
  /\ resizes < MaxResizes
  /\ \E sz \in Sizes : EarlyResize(sz)
  /\ resizes' = resizes + 1
  /\ op' = "resize"
  /\ UNCHANGED pureVars
  /\ UNCHANGED <<envVars, velvetVars, loads, loopElapsed,
                 rafRef, t0Ref, doneRef, strokesRef, cancelled, img, textureRef,
                 textureReadyRef, roConnected>>

UnmountEarly ==
  /\ component = "early" /\ phase = "mounted"
  /\ EarlyCleanup
  /\ phase' = "cleaned"
  /\ op' = "cleanup"
  /\ UNCHANGED pureVars
  /\ NoRender
  /\ UNCHANGED <<fixedVars, now, ticks, lastFrame, docHidden, velvetVars, resizes, loads,
                 loopElapsed, t0Ref, doneRef, strokesRef, sizeRef, img, textureRef,
                 textureReadyRef>>

----------------------------------------------------------------------------
(* The browser runs the handlers of the ambient canvas *)

velvetUntouched == <<doneRef, cancelled, img, textureRef, textureReadyRef>>

MountVelvet ==
  /\ component = "velvet" /\ phase = "fresh"
  /\ \E sz \in Sizes : VelvetInit(sz)
  /\ op' = "mount"
  /\ UNCHANGED pureVars
  /\ UNCHANGED <<fixedVars, now, ticks, lastFrame, pending, docHidden,
                 resizes, loads, loopElapsed>>

\* animation frames are not run while the document is hidden
FrameVelvet ==
  /\ component = "velvet"
  /\ now > lastFrame
  /\ ~docHidden
  /\ UNCHANGED <<fixedVars, phase, now, ticks, docHidden, resizes, loads, velvetUntouched,
                 strokesRef, sizeRef, roConnected, ioConnected, visListener,
                 inputListeners, staticResRef, isOnScreenRef, lastTouchTimeRef>>
  /\ \E id \in pending : VelvetLoop(now, pending \ {id})
  /\ lastFrame' = now
  /\ op' = "loop"
  /\ UNCHANGED pureVars
  /\ loopElapsed' = now - t0Ref'

ResizeVelvet ==
  /\ component = "velvet" /\ roConnected
  /\ resizes < MaxResizes
  /\ \E sz \in Sizes : VelvetResize(sz)
  /\ resizes' = resizes + 1
  /\ op' = "resize"
  /\ UNCHANGED pureVars
  /\ UNCHANGED <<envVars, loads, loopElapsed, velvetUntouched, rafRef, t0Ref, strokesRef,
                 roConnected, ioConnected, visListener, inputListeners, lastTimeRef,
                 isOnScreenRef, lastDrawTimeRef, lastDrawElapsedRef, lastDrawPtrRef,
                 lastTouchTimeRef>>

IntersectionVelvet ==
  /\ component = "velvet" /\ ioConnected
  /\ \E b \in BOOLEAN : VelvetIntersection(b)
  /\ op' = "intersection"
  /\ UNCHANGED pureVars
  /\ NoRender
  /\ UNCHANGED <<fixedVars, phase, now, ticks, lastFrame, docHidden, resizes, loads,
                 loopElapsed, velvetUntouched, strokesRef, sizeRef, roConnected,
                 ioConnected, visListener, inputListeners, staticResRef, ptrRef,
                 smoothPtrRef, lastDrawTimeRef, lastDrawElapsedRef, lastDrawPtrRef,
                 lastTouchTimeRef>>

\* the document becomes hidden or visible; the listener runs while registered
VisibilityVelvet ==
  /\ component = "velvet" /\ phase \in {"mounted", "aborted"}
  /\ docHidden' = ~docHidden
  /\ IF visListener THEN onVisibilityChange(docHidden') ELSE loopUntouched
  /\ op' = "visibility"
  /\ UNCHANGED pureVars
  /\ NoRender
  /\ UNCHANGED <<fixedVars, phase, now, ticks, lastFrame, resizes, loads,
                 loopElapsed, velvetUntouched, strokesRef, sizeRef, roConnected,
                 ioConnected, visListener, inputListeners, staticResRef, ptrRef,
                 smoothPtrRef, isOnScreenRef, lastDrawTimeRef, lastDrawElapsedRef,
                 lastDrawPtrRef, lastTouchTimeRef>>

PointerVelvet ==
  /\ component = "velvet" /\ inputListeners
  /\ \E pos \in PointerInputs : onPointerMove(pos)
  /\ op' = "pointer"
  /\ UNCHANGED pureVars
  /\ NoRender
  /\ UNCHANGED <<envVars, brushVars, resizes, loads, loopElapsed,
                 ioConnected, visListener, inputListeners, staticResRef, lastTimeRef,
                 smoothPtrRef, isOnScreenRef, lastDrawTimeRef, lastDrawElapsedRef,
                 lastDrawPtrRef, lastTouchTimeRef>>

TouchVelvet ==
  /\ component = "velvet" /\ inputListeners /\ isMobile
  /\ \E n \in {0, 1}, pos \in PointerInputs : onTouchMove(n, pos)
  /\ op' = "touch"
  /\ UNCHANGED pureVars
  /\ NoRender
  /\ UNCHANGED <<envVars, brushVars, resizes, loads, loopElapsed,
                 ioConnected, visListener, inputListeners, staticResRef, lastTimeRef,
                 smoothPtrRef, isOnScreenRef, lastDrawTimeRef, lastDrawElapsedRef,
                 lastDrawPtrRef>>

UnmountVelvet ==
  /\ component = "velvet" /\ phase = "mounted"
  /\ VelvetCleanup
  /\ phase' = "cleaned"
  /\ op' = "cleanup"
  /\ UNCHANGED pureVars
  /\ NoRender
  /\ UNCHANGED <<fixedVars, now, ticks, lastFrame, docHidden, resizes, loads,
                 loopElapsed, velvetUntouched, strokesRef, sizeRef, staticResRef,
                 ptrRef, smoothPtrRef, isOnScreenRef, lastDrawTimeRef,
                 lastDrawElapsedRef, lastDrawPtrRef, lastTouchTimeRef>>

----------------------------------------------------------------------------

Next ==
  \/ Tick
  \/ MountTextured \/ FrameTextured \/ ResizeTextured
  \/ LoadTextured \/ ErrorTextured \/ UnmountTextured
  \/ MountBrush \/ FrameBrush \/ ResizeBrush \/ UnmountBrush
  \/ MountEarly \/ FrameEarly \/ ResizeEarly \/ UnmountEarly
  \/ MountVelvet \/ FrameVelvet \/ ResizeVelvet \/ IntersectionVelvet
  \/ VisibilityVelvet \/ PointerVelvet \/ TouchVelvet \/ UnmountVelvet

Spec == Init /\ [][Next]_vars

----------------------------------------------------------------------------
(* The functions of the renderer, applied to inputs drawn at the start *)

\* progress: a stroke and two times t1 <= t2 around its start and its end
ProgressInputs ==
  { <<"progress", k, t1, t1 + d>> :
      k \in 1..Len(defs),
      t1 \in UNION { {defs[j].t0, defs[j].t0 + defs[j].dt \div 2,
                       defs[j].t0 + defs[j].dt - 20, defs[j].t0 + defs[j].dt,
                       defs[j].t0 + defs[j].dt + 20} : j \in 1..Len(defs) },
      d \in {0, 20, 500} }

\* geometry: a stroke, a progress in [0, 1] and a canvas width
GeometryInputs ==
  { <<"geometry", k, p, sz[1]>> :
      k \in {1, Len(defs)},
      p \in {5 * j : j \in 0..200} \cup {1, 2, 7, 959, 961, 999},
      sz \in Sizes }

\* edges: a stroke, a progress in [0, 1], a canvas width and the values of
\* the left and the right noise (rng() - 0.5, in 1/65536)
EdgeInputs ==
  { <<"edges", k, p, sz[1], nl, nr>> :
      k \in {1, Len(defs)},
      p \in {0, 1, 7, 250, 500, 959, 960, 999, 1000},
      sz \in Sizes,
      nl \in {0 - 32768, 0, 32767},
      nr \in {0 - 32768, 12345} }

\* sampleBezier: the control points of a stroke and a sample count
BezierInputs == { <<"bezier", k, n>> : k \in 1..Len(defs), n \in {1, 2, 3, 7, N_PTS} }

ApplyBezier ==
  /\ arg[1] = "bezier" /\ ret = <<>>
  /\ ret' = <<sampleBezier(defs[arg[2]].p0, defs[arg[2]].c1, defs[arg[2]].c2,
                           defs[arg[2]].p3, arg[3])>>
  /\ UNCHANGED <<arg, progVars>>

\* renderScene: an elapsed time (ms), a canvas width, the bristles per stroke
\* (28 + Math.floor(rng() * 11)), whether a texture is given, whether it is a
\* complete image, and whether the bounding boxes of the strokes are at least
\* 2 px wide and high (never in a canvas of width 0)
SceneInputs ==
  { in \in { <<"scene", e, sz[1], nb, texture, complete, wide>> :
               e \in {0, 380, 600, 1100, 2500, 4400},
               sz \in Sizes,
               nb \in {28, 38},
               texture \in BOOLEAN,
               complete \in BOOLEAN,
               wide \in BOOLEAN } : in[3] > 0 \/ ~in[7] }

ApplyScene ==
  /\ arg[1] = "scene" /\ ret = <<>>
  /\ ret' = <<renderSceneCalls(defs, arg[2], arg[4], arg[5], arg[6], arg[7])>>
  /\ UNCHANGED <<arg, progVars>>

\* the wet blob: a stroke, two progress values p <= p + d in [0, 1] and a
\* canvas width
BlobInputs ==
  { <<"blob", k, p, Min(1000, p + d), sz[1]>> :
      k \in {1}, p \in 0..1000, d \in {1, 17}, sz \in Sizes }

\* renderStroke at the first progress: its draws, blobA at both progress
\* values and tHW, the half-width at the last revealed sample
ApplyBlob ==
  /\ arg[1] = "blob" /\ ret = <<>>
  /\ ret' = <<Exec(renderStrokeCalls(28, arg[3], FALSE, FALSE, FALSE),
                   1, arg[2], "source-over", <<>>, <<>>).ops,
              blobA(arg[3]), blobA(arg[4]),
              hwA(defs[arg[2]], arg[3], arg[5])[count(arg[3]) - 1]>>
  /\ UNCHANGED <<arg, progVars>>

\* array reads: a stroke, a progress in [0, 1], and the length n and the
\* step of a noise array
ReadInputs ==
  { <<"reads", k, p, ns[1], ns[2]>> :
      k \in {1},
      p \in {25 * j : j \in 0..40} \cup {1, 2, 5, 7, 10, 959, 961, 995, 999},
      ns \in ((1..24) \X {1, 2, 3, 7, 8}) \cup {<<N_PTS + 1, 7>>, <<N_PTS + 1, 8>>} }

\* buildStrokes: the lengths of the arrays of a stroke, pts =
\* sampleBezier(..., N_PTS) and noiseL, noiseR = bakeNoise(N_PTS + 1, rng, 7)
builtLengths ==
  [pts |-> Cardinality(DOMAIN sampleBezier(defs[1].p0, defs[1].c1,
                                           defs[1].c2, defs[1].p3, N_PTS)),
   noise |-> Cardinality(DOMAIN bakeNoise(N_PTS + 1, mulberry32(<<54183, 61897>>), 7))]

\* renderStroke's and bakeNoise's reads, with the lengths of the arrays read:
\* s.pts, s.noiseL and s.noiseR as built, nrm = computeNormals(pts.slice(0,
\* count)), and ctrl
ApplyReads ==
  /\ arg[1] = "reads" /\ ret = <<>>
  /\ ret' = <<renderStrokeReads(arg[3]),
              [pts |-> builtLengths.pts, nrm |-> count(arg[3]),
               noise |-> builtLengths.noise],
              bakeNoiseReads(arg[4], arg[5]),
              nCtrl(arg[4], arg[5])>>
  /\ UNCHANGED <<arg, progVars>>

\* builds of the stroke data per behaviour
MaxBuilds == 2

PureInputs ==
  ProgressInputs \cup GeometryInputs \cup EdgeInputs \cup BezierInputs \cup SceneInputs
    \cup BlobInputs \cup ReadInputs \cup {<<"build">>}

ApplyEdges ==
  /\ arg[1] = "edges" /\ ret = <<>>
  /\ ret' = <<edges(defs[arg[2]], arg[3], arg[4], arg[5], arg[6])>>
  /\ UNCHANGED <<arg, progVars>>

\* a call of buildStrokes, as a mount makes it
ApplyBuild ==
  /\ arg[1] = "build" /\ Len(ret) < MaxBuilds
  /\ ret' = Append(ret, buildStrokes)
  /\ UNCHANGED <<arg, progVars>>

ApplyGeometry ==
  /\ arg[1] = "geometry" /\ ret = <<>>
  /\ ret' = <<count(arg[3]), hwA(defs[arg[2]], arg[3], arg[4])>>
  /\ UNCHANGED <<arg, progVars>>

ApplyProgress ==
  /\ arg[1] = "progress" /\ ret = <<>>
  /\ ret' = <<progress(defs[arg[2]], arg[3]), progress(defs[arg[2]], arg[4])>>
  /\ UNCHANGED <<arg, progVars>>

PureInit ==
  /\ ProgInit
  /\ component = "textured" /\ ~prefersReduced /\ ctxOk /\ ~textureReadyRef
  /\ arg \in PureInputs
  /\ ret = <<>>

PureNext ==
  \/ ApplyProgress
  \/ ApplyGeometry
  \/ ApplyEdges
  \/ ApplyBezier
  \/ ApplyScene
  \/ ApplyBlob
  \/ ApplyReads
  \/ ApplyBuild

PureSpec == PureInit /\ [][PureNext]_vars

----------------------------------------------------------------------------
(* The textured brush canvas in a browser that keeps rendering: the clock   *)
(* advances once the callback requested for the current frame has run, and  *)
(* a requested callback is run.                                             *)

LiveTick ==
  /\ pending = {} \/ lastFrame = now
  /\ Tick

LiveInit == Init /\ component = "textured"

LiveNext ==
  \/ LiveTick
  \/ MountTextured \/ FrameTextured \/ ResizeTextured
  \/ LoadTextured \/ ErrorTextured \/ UnmountTextured

LiveSpec ==
  /\ LiveInit /\ [][LiveNext]_vars
  /\ WF_vars(LiveTick) /\ WF_vars(FrameTextured)

----------------------------------------------------------------------------
(* Properties *)

\* the total duration of the mounted brush canvas
TotalDuration == IF component = "early" THEN ANIMATION_END_TIME ELSE ANIM_END

IsBrush == component \in BrushComponents

\* a step in which a frame callback runs, a resize notification is delivered,
\* a render is made
FrameStep == lastFrame' # lastFrame
ResizeStep == resizes' = resizes + 1
RenderStep == renders' = renders + 1

\* C1: in a brush canvas, a frame callback whose elapsed time is >= the total
\* duration makes exactly one render, at the total duration, sets done and
\* leaves no callback requested; once done, no callback is requested again,
\* whatever resize or texture events follow.
C1_FinalFrameThenDormant ==
  [][IsBrush =>
       /\ (FrameStep /\ now - t0Ref' >= TotalDuration)
            => /\ RenderStep
               /\ lastElapsed' = TotalDuration
               /\ doneRef'
               /\ pending' = {} /\ rafRef' = 0
       /\ doneRef => (doneRef' /\ pending' = {} /\ ~FrameStep)]_vars

\* a resize notification arrives after the loop has ended the animation
C1_Witness ==
  /\ component = "textured" /\ ~prefersReduced
  /\ doneRef /\ loopElapsed >= ANIM_END
  /\ op = "resize" /\ paints = 1 /\ lastElapsed = ANIM_END
  /\ pending = {}

\* C2 (as claimed): every resize notification is followed, inside the handler,
\* by a repaint.
C2_ResizeAlwaysRepaints == op = "resize" => paints = 1

\* C3: in a brush canvas, a resize while the animation runs (start timestamp
\* set, not done, elapsed e > 0) repaints at min(e, total duration), not at 0,
\* and no step changes a start timestamp that is set.
C3_ResizeKeepsElapsed ==
  [][IsBrush =>
       /\ (ResizeStep /\ ~prefersReduced /\ ~doneRef /\ t0Ref # NULL /\ now > t0Ref)
            => /\ RenderStep
               /\ lastElapsed' = Min(now - t0Ref, TotalDuration)
               /\ lastElapsed' # 0
       /\ t0Ref # NULL => t0Ref' = t0Ref]_vars

\* a resize repainted in mid-animation
C3_Witness ==
  /\ component = "textured" /\ ~prefersReduced /\ ~doneRef
  /\ op = "resize" /\ paints = 1
  /\ t0Ref # NULL /\ lastElapsed = now - t0Ref
  /\ 0 < lastElapsed /\ lastElapsed < ANIM_END

\* C4: with reduced motion, no frame callback is ever requested or run, in
\* any of the canvases.
C4_ReducedMotionNeverSchedules ==
  prefersReduced => (pending = {} /\ rafRef = 0 /\ lastFrame = NULL)

\* with reduced motion, the ambient canvas is on screen and the document has
\* just become visible again
C4_Witness ==
  /\ prefersReduced /\ component = "velvet"
  /\ op = "visibility" /\ ~docHidden /\ isOnScreenRef /\ resizes > 0

\* the elapsed time of the static, final-state frame of the mounted canvas
StaticElapsed == IF component = "velvet" THEN STATIC_ELAPSED ELSE TotalDuration

Mounted == phase \in {"mounted", "cleaned"}

\* C5 (as claimed): with reduced motion the renders of a mount are one for the
\* mount and one per resize notification, and nothing else renders; all of
\* them at the total duration.
C5_RendersAreMountPlusResizes ==
  (prefersReduced /\ Mounted) =>
     (renders = 1 + resizes /\ lastElapsed = StaticElapsed)

\* C5 (amended): with reduced motion the renders of a mount are one for the
\* mount, one per resize notification and at most one for the completion of
\* the texture load (made only while mounted with a non-zero canvas size);
\* all of them at the elapsed time of the static frame.
C5_RendersAreMountResizesAndLoad ==
  (prefersReduced /\ Mounted) =>
     /\ renders = 1 + resizes + loads
     /\ loads \in {0, 1}
     /\ loads = 1 => (component = "textured" /\ img = "loaded")
     /\ (op = "onload" /\ paints = 1)
          => (phase = "mounted" /\ sizeRef[1] # 0 /\ sizeRef[2] # 0)
     /\ lastElapsed = StaticElapsed

\* with reduced motion, the texture load has repainted after a resize
C5_Witness ==
  /\ prefersReduced /\ component = "textured"
  /\ resizes > 0 /\ op = "onload" /\ paints = 1 /\ loads = 1
  /\ renders = resizes + 2 /\ lastElapsed = ANIM_END

\* C6: in the ambient canvas the start timestamp is set by a frame callback
\* only, and once set no step changes it; the elapsed time of successive frame
\* callbacks never decreases, and is above 0 whenever time has passed since
\* the start timestamp.
C6_StartTimeKept ==
  [][component = "velvet" =>
       /\ t0Ref # NULL => t0Ref' = t0Ref
       /\ t0Ref' # t0Ref => FrameStep
       /\ FrameStep =>
            /\ loopElapsed' = now - t0Ref'
            /\ loopElapsed # NULL => loopElapsed' >= loopElapsed
            /\ (t0Ref # NULL /\ now > t0Ref) => loopElapsed' > 0]_vars

\* the loop of the ambient canvas has been started again after frame
\* callbacks had run and time had passed
C6_Witness ==
  /\ component = "velvet"
  /\ op \in {"intersection", "visibility"}
  /\ t0Ref # NULL /\ now > t0Ref /\ loopElapsed # NULL
  /\ lastTimeRef = NULL /\ pending # {}

\* C7 (as claimed): in the ambient canvas, whenever a frame callback is
\* requested the host view is intersecting and the document is not hidden.
C7_PendingOnlyWhileVisible ==
  (component = "velvet" /\ pending # {}) => (isOnScreenRef /\ ~docHidden)

\* C8: in the ambient canvas at most one frame callback is requested at any
\* time: the one rafRef holds, and none when rafRef is null.
C8_AtMostOnePending ==
  component = "velvet" =>
     /\ Cardinality(pending) <= 1
     /\ pending = (IF rafRef = 0 THEN {} ELSE {rafRef})

\* an intersection notification arrived while the loop was running
C8_Witness ==
  /\ component = "velvet"
  /\ op = "intersection" /\ isOnScreenRef
  /\ lastTimeRef # NULL /\ pending # {}

\* C9: once the cleanup has run, no frame callback is requested and no render
\* is made, whatever events follow.
C9_NothingAfterCleanup ==
  [][phase' = "cleaned" =>
       /\ pending' = {}
       /\ ~FrameStep
       /\ phase = "cleaned" => renders' = renders]_vars

\* the texture load completed after the cleanup, which had cancelled a
\* requested frame callback
C9_Witness ==
  /\ component = "textured" /\ ~prefersReduced /\ ~doneRef
  /\ phase = "cleaned" /\ op = "onload" /\ img = "loaded"
  /\ pending = {}

\* the target frame interval of the ambient canvas, in units
TargetInterval == IF isMobile THEN 4 ELSE 2

\* C10: in the ambient canvas a frame callback paints only when the time since
\* the last paint is at least the target frame interval and the elapsed time
\* or the smoothed pointer differs from the last painted one by more than its
\* epsilon; a painting callback records its time, elapsed and pointer, so that
\* consecutive paints are at least one interval apart; a callback that does
\* not paint leaves the record as it is.
C10_PaintsThrottled ==
  [][(component = "velvet" /\ FrameStep) =>
       IF RenderStep
       THEN /\ lastDrawTimeRef = NULL \/ now - lastDrawTimeRef >= TargetInterval
            /\ \/ Abs(loopElapsed' - lastDrawElapsedRef) * 10000
                    > PHASE_DELTA_THRESHOLD * UnitsPerSecond
               \/ Abs(smoothPtrRef'[1] - lastDrawPtrRef[1]) > PTR_DELTA_THRESHOLD
               \/ Abs(smoothPtrRef'[2] - lastDrawPtrRef[2]) > PTR_DELTA_THRESHOLD
            /\ lastDrawTimeRef' = now
            /\ lastDrawElapsedRef' = loopElapsed'
            /\ lastDrawPtrRef' = smoothPtrRef'
            /\ lastDrawTimeRef # NULL => lastDrawTimeRef' - lastDrawTimeRef >= TargetInterval
       ELSE UNCHANGED <<lastDrawTimeRef, lastDrawElapsedRef, lastDrawPtrRef>>]_vars

\* a frame callback came too early after a paint and did not paint
C10_Witness ==
  /\ component = "velvet"
  /\ op = "loop" /\ paints = 0
  /\ lastDrawTimeRef # NULL
  /\ 0 < now - lastDrawTimeRef /\ now - lastDrawTimeRef < TargetInterval
  /\ lastTimeRef = now

\* C11 (as claimed): a render includes the texture-projection pass only if the
\* load-complete signal of the texture was received earlier in the same
\* mount; a render made before it, or after a load failure, omits the pass.
C11_TextureOnlyAfterLoad ==
  (component = "textured" /\ paints = 1) =>
     /\ lastTexture => img = "loaded"
     /\ img = "failed" => ~lastTexture

\* a step in which the texture load completes, fails
OnloadStep == img = "loading" /\ img' = "loaded"
OnerrorStep == img = "loading" /\ img' = "failed"

\* C12: the texture load-complete handler leaves the start timestamp, the
\* done flag, the frame-callback handle and the requested callbacks as they
\* are; while mounted it records the texture as ready, and with a non-zero
\* size repaints, with the texture, at the current elapsed time: the total
\* duration when done or under reduced motion, min(now - start, total)
\* otherwise (0 before the first frame callback).
C12_OnloadDoesNotRestart ==
  [][OnloadStep =>
       /\ UNCHANGED <<t0Ref, doneRef, rafRef, pending>>
       /\ ~cancelled =>
            /\ textureReadyRef' /\ textureRef'
            /\ RenderStep <=> (sizeRef[1] # 0 /\ sizeRef[2] # 0)
       /\ RenderStep =>
            /\ lastTexture'
            /\ lastElapsed' =
                 IF prefersReduced \/ doneRef THEN ANIM_END
                 ELSE IF t0Ref = NULL THEN 0
                 ELSE Min(now - t0Ref, ANIM_END)]_vars

\* the texture arrived in the middle of the run and was painted at once
C12_Witness ==
  /\ op = "onload" /\ paints = 1 /\ lastTexture
  /\ ~prefersReduced /\ ~doneRef /\ pending # {}
  /\ t0Ref # NULL /\ lastElapsed = now - t0Ref
  /\ 0 < lastElapsed /\ lastElapsed < ANIM_END

\* C13: without reduced motion, a mounted canvas whose frame callbacks keep
\* running with advancing timestamps reaches the done state with a paint at
\* the total duration (unless it is unmounted first), whether the texture
\* loads, fails or never resolves; and a texture load failure changes nothing
\* but the texture record: the requested callback, the start timestamp and
\* the done flag stay, and nothing is rendered.
C13_ReachesDoneWhateverTexture ==
  /\ (phase = "mounted" /\ ~prefersReduced)
       ~> (phase = "cleaned" \/ (doneRef /\ lastElapsed = ANIM_END /\ pending = {}))
  /\ [][OnerrorStep =>
          /\ UNCHANGED <<pending, rafRef, t0Ref, doneRef, renders, phase>>
          /\ ~cancelled => (~textureReadyRef' /\ ~textureRef')]_vars

\* the texture failed to load during the run, and the animation is done
C13_Witness ==
  /\ phase = "mounted" /\ ~prefersReduced
  /\ img = "failed" /\ ~textureReadyRef
  /\ op = "loop" /\ doneRef /\ paints = 1 /\ lastElapsed = ANIM_END
  /\ loopElapsed >= ANIM_END /\ pending = {}

\* C14 (as claimed): no render is made while the logical canvas width or
\* height is zero or negative, whichever handler the render would come from.
C14_NoRenderAtZeroSize ==
  paints = 1 => (sizeRef[1] > 0 /\ sizeRef[2] > 0)

\* C15: when the drawing context cannot be acquired the initialization
\* aborts: no frame callback is requested, no observer or listener is
\* registered, no texture load is started, the scene is not built, and
\* nothing is ever rendered, whatever the browser does afterwards.
C15_AbortWithoutContext ==
  /\ ~ctxOk => phase \in {"fresh", "aborted"}
  /\ phase = "aborted" =>
       /\ ~ctxOk
       /\ pending = {} /\ rafRef = 0 /\ lastFrame = NULL
       /\ ~roConnected /\ ~ioConnected /\ ~visListener /\ ~inputListeners
       /\ img = "none" /\ ~strokesRef /\ ~staticResRef
       /\ renders = 0 /\ paints = 0 /\ resizes = 0

\* the mount of the ambient canvas was aborted; later the clock advanced and
\* the document became visible
C15_Witness ==
  /\ component = "velvet" /\ phase = "aborted" /\ ~prefersReduced
  /\ now > 0 /\ op = "visibility" /\ ~docHidden

\* the phase of stroke k in a render: 0 NOT_STARTED (not drawn), 1 REVEALING
\* (progress < 0.96), 2 SETTLING (progress in [0.96, 1)), 3 COMPLETE
StrokePhase(call, k) ==
  IF k \notin DOMAIN call.out.strokes THEN 0
  ELSE IF call.out.strokes[k][2] < 960 THEN 1
  ELSE IF call.out.strokes[k][2] < 1000 THEN 2
  ELSE 3

\* C16: over the renders of one mount of a brush canvas (frame-callback
\* paints, resize repaints and texture-load repaints, in any order) the
\* elapsed time given to the renderer never decreases: a stroke once drawn
\* stays drawn, its progress never decreases and its phase only moves
\* forward.
C16_ElapsedNeverDecreases ==
  (IsBrush /\ prevCall # NoCall) =>
     /\ lastCall.elapsed >= prevCall.elapsed
     /\ \A k \in DOMAIN prevCall.out.strokes :
          /\ k \in DOMAIN lastCall.out.strokes
          /\ lastCall.out.strokes[k][2] >= prevCall.out.strokes[k][2]
     /\ \A k \in 1..Len(defs) : StrokePhase(lastCall, k) >= StrokePhase(prevCall, k)

\* a resize repaint 1.1 s after a paint of the loop: the third stroke went
\* from REVEALING to COMPLETE, the fifth from NOT_STARTED to SETTLING
C16_Witness ==
  /\ component = "textured" /\ ~prefersReduced
  /\ op = "resize" /\ paints = 1 /\ prevCall # NoCall
  /\ prevCall.elapsed > 0 /\ lastCall.elapsed > prevCall.elapsed
  /\ StrokePhase(prevCall, 3) = 1 /\ StrokePhase(lastCall, 3) = 3
  /\ StrokePhase(prevCall, 5) = 0 /\ StrokePhase(lastCall, 5) = 2

\* C17: for a stroke with start S and duration D the eased progress
\* 1 - (1 - min(1, (t - S) / D)) ^ 3 is nondecreasing in t from S on, lies in
\* [0, 1], and is 1 for every t >= S + D.
C17_ProgressMonotone ==
  (arg[1] = "progress" /\ ret # <<>>) =>
     LET s == defs[arg[2]]
         t1 == arg[3]
         t2 == arg[4]
     IN /\ (s.t0 <= t1 /\ t1 <= t2) =>
             (0 <= ret[1] /\ ret[1] <= ret[2] /\ ret[2] <= 1000)
        /\ t1 >= s.t0 + s.dt => ret[1] = 1000
        /\ t2 >= s.t0 + s.dt => ret[2] = 1000

\* the progress of a stroke taken while it is revealed and after its end
C17_Witness ==
  /\ arg[1] = "progress" /\ ret # <<>>
  /\ defs[arg[2]].t0 < arg[3] /\ arg[3] < arg[4]
  /\ arg[4] > defs[arg[2]].t0 + defs[arg[2]].dt
  /\ 0 < ret[1] /\ ret[1] < ret[2] /\ ret[2] = 1000

\* C18: for any progress in [0, 1] the count of revealed samples,
\* max(3, round(progress * totalSamples) + 1), lies in 3 .. totalSamples + 1,
\* and the half-width of every revealed sample (maxHalfWidth times the width
\* profile of its position, live or settled) is a number >= 0.
C18_GeometryValid ==
  (arg[1] = "geometry" /\ ret # <<>>) =>
     /\ 3 <= ret[1] /\ ret[1] <= N_PTS + 1
     /\ DOMAIN ret[2] = 0..(ret[1] - 1)
     /\ \A i \in DOMAIN ret[2] : ret[2][i] # NaN /\ ret[2][i] >= 0

\* a live stroke, partly revealed, in a canvas of non-zero width: its
\* half-widths rise from 0 at the start and fall towards the tip
C18_Witness ==
  /\ arg[1] = "geometry" /\ ret # <<>>
  /\ arg[3] = 500 /\ arg[4] > 0
  /\ ret[1] = 101
  /\ ret[2][0] = 0 /\ ret[2][1] > 0 /\ ret[2][50] > ret[2][1]
  /\ ret[2][99] < ret[2][50] /\ ret[2][100] = 0

\* the latest two renders were given the same elapsed time, size and pointer
SameInputs ==
  /\ prevCall # NoCall
  /\ lastCall.elapsed = prevCall.elapsed
  /\ lastCall.size = prevCall.size
  /\ lastCall.ptr = prevCall.ptr

SceneDefs == IF component = "early" THEN earlyDefs ELSE defs

\* C21: every render of a brush canvas first fills the background and then
\* calls the stroke renderer in authored order, for exactly the strokes with
\* elapsed - startTime > 0; a stroke whose start time has not arrived
\* (elapsed <= startTime) gets no drawing operation.
C21_BackgroundThenStrokesInOrder ==
  (IsBrush /\ lastCall # NoCall) =>
     LET ops == lastCall.out.ops
         fill == CHOOSE i \in 1..Len(ops) : ops[i][1] = "fillRect"
     IN /\ \E i \in 1..Len(ops) : ops[i][1] = "fillRect"
        /\ \A i \in 1..Len(ops) :
             /\ i < fill => ops[i][1] = "clearRect"
             /\ i > fill => ops[i][1] = "renderStroke"
        /\ \A i, j \in (fill + 1)..Len(ops) : i < j => ops[i][2] < ops[j][2]
        /\ \A k \in 1..Len(SceneDefs) :
             (\E i \in 1..Len(ops) : ops[i] = <<"renderStroke", k>>)
               <=> Millis(lastCall.elapsed) - SceneDefs[k].t0 > 0

\* a render of the textured canvas 1.1 s into the animation: the first three
\* strokes are drawn, in order; the fourth, which starts at 1.12 s, is not
C21_Witness ==
  /\ component = "textured" /\ paints = 1
  /\ Millis(lastCall.elapsed) = defs[3].t0 + 340
  /\ lastCall.out.ops = <<<<"clearRect", 0>>, <<"fillRect", 0>>, <<"renderStroke", 1>>,
                          <<"renderStroke", 2>>, <<"renderStroke", 3>>>>

\* a step in which a pointer or touch callback runs
InputStep == op' \in {"pointer", "touch"}

\* C22 (as claimed): in the ambient canvas the pointer and touch callbacks
\* write only the latest position (and the last-touch time): they do not
\* paint, request or cancel a frame callback or change the smoothed pointer;
\* a frame callback moves the smoothed pointer towards the position written
\* last before it; and after the mount only the input callbacks write the
\* latest position.
C22_InputCallbacksOnlyWriters ==
  [][component = "velvet" =>
       /\ InputStep =>
            /\ ~RenderStep
            /\ UNCHANGED <<pending, rafRef, smoothPtrRef, sizeRef, t0Ref, lastTimeRef,
                           lastDrawTimeRef, lastDrawElapsedRef, lastDrawPtrRef>>
       /\ FrameStep =>
            smoothPtrRef' = Smooth(smoothPtrRef, ptrRef, SmoothAlpha(lastTimeRef, now))
       /\ (phase = "mounted" /\ ptrRef' # ptrRef) => InputStep]_vars

\* C23: the edge-noise offset of a boundary point is noise x half-width x
\* NOISE_AMP, so it is 0 wherever the half-width is 0; at the first and at the
\* last revealed sample of a stroke, live or settled, the half-width is 0 and
\* the left and the right boundary point coincide with the centerline point,
\* whatever the noise values.
C23_NoNoiseAtZeroWidth ==
  (arg[1] = "edges" /\ ret # <<>>) =>
     LET e == ret[1]
         last == count(arg[3]) - 1
     IN /\ DOMAIN e = 0..last
        /\ \A i \in DOMAIN e :
             /\ e[i].left = e[i].hw + edgeNoise(arg[5], e[i].hw)
             /\ e[i].right = e[i].hw + edgeNoise(arg[6], e[i].hw)
             /\ e[i].hw = 0 => (e[i].left = 0 /\ e[i].right = 0)
        /\ e[0].hw = 0 /\ e[0].left = 0 /\ e[0].right = 0
        /\ e[last].hw = 0 /\ e[last].left = 0 /\ e[last].right = 0

\* a live stroke, half revealed, in a canvas of non-zero width, with noise at
\* its extremes: the boundary is displaced by the noise between the tips
C23_Witness ==
  /\ arg[1] = "edges" /\ ret # <<>>
  /\ arg[3] = 500 /\ arg[4] > 0 /\ arg[5] = 32767 /\ arg[6] = 0 - 32768
  /\ ret[1][50].hw > 0
  /\ ret[1][50].left > ret[1][50].hw /\ ret[1][50].right < ret[1][50].hw
  /\ ret[1][100].hw = 0 /\ ret[1][100].left = 0

\* the point at parameter i/n of the cubic curve with control points p0, c1,
\* c2, p3, by repeated interpolation between them, coordinate c, times n^3
CurvePoint(p0, c1, c2, p3, i, n, c) ==
  LET t == i
      u == n - i
      a == u * p0[c] + t * c1[c]
      b == u * c1[c] + t * c2[c]
      d == u * c2[c] + t * p3[c]
  IN u * (u * a + t * b) + t * (u * b + t * d)

\* C24: sampleBezier with sample count N returns exactly N + 1 points, the
\* i-th being the point of the curve at parameter i/N; the first is the start
\* control point and the last the end control point, exactly (for N = 200 and
\* the first stroke: (-0.03, 0.86) and (1.03, 0.18)).
C24_BezierEndpointsExact ==
  (arg[1] = "bezier" /\ ret # <<>>) =>
     LET d == defs[arg[2]]
         n == arg[3]
         out == ret[1]
     IN /\ DOMAIN out = 0..n
        /\ \A i \in 0..n : \A c \in {1, 2} :
             out[i][c] = CurvePoint(d.p0, d.c1, d.c2, d.p3, i, n, c)
        /\ out[0] = <<n * n * n * d.p0[1], n * n * n * d.p0[2]>>
        /\ out[n] = <<n * n * n * d.p3[1], n * n * n * d.p3[2]>>
        /\ (arg[2] = 1 /\ n = N_PTS) =>
             /\ out[0] = <<0 - 3 * 8000000, 86 * 8000000>>
             /\ out[N_PTS] = <<103 * 8000000, 18 * 8000000>>

\* the 201 samples of the first stroke; the curve leaves the line between its
\* end points
C24_Witness ==
  /\ arg = <<"bezier", 1, N_PTS>> /\ ret # <<>>
  /\ Cardinality(DOMAIN ret[1]) = N_PTS + 1
  /\ ret[1][0][1] < ret[1][100][1] /\ ret[1][100][1] < ret[1][N_PTS][1]
  /\ ret[1][100][2] < (ret[1][0][2] + ret[1][N_PTS][2]) \div 2

\* C25: in the mounted ambient canvas without reduced motion, whenever the
\* latest intersection notification said the host view is intersecting and
\* the document is visible, a frame callback is requested (the one rafRef
\* holds), whatever intersection and visibility events came before.
C25_LoopRunsWhileVisible ==
  (component = "velvet" /\ phase = "mounted" /\ ~prefersReduced
     /\ isOnScreenRef /\ ~docHidden)
    => (rafRef # 0 /\ rafRef \in pending)

\* the document became visible again, after frame callbacks had run and the
\* loop had been stopped: the loop was resumed
C25_Witness ==
  /\ component = "velvet" /\ phase = "mounted" /\ ~prefersReduced
  /\ op = "visibility" /\ ~docHidden /\ isOnScreenRef
  /\ t0Ref # NULL /\ lastTimeRef = NULL
  /\ rafRef # 0 /\ pending = {rafRef}

\* the draws of stroke k among ops, in order
DrawsOf(ops, k) == SelectSeq(ops, LAMBDA o : o[1] = k)

\* its draws named pass
HasPass(ops, k, pass) == \E i \in 1..Len(ops) : ops[i][1] = k /\ ops[i][2] = pass

\* C26: for every stroke drawn in a render the passes are issued in this
\* order: shadow, body, depth band 62%, depth band 26%, the texture
\* projection (only with a texture given, enabled and complete: multiply, then
\* soft-light, then overlay), meniscus left and right, the bristle polylines,
\* the specular halo and glint (screen blend), the wet blob and its glint; all
\* passes of one stroke come before any pass of the next; every pass not named
\* with a blend mode is drawn source-over, and source-over is the blend mode
\* after the specular and the blob passes.
C26_PassOrder ==
  (arg[1] = "scene" /\ ret # <<>>) =>
     LET ops == ret[1].ops
         over == "source-over"
     IN /\ ret[1].blend = over
        /\ \A i, j \in 1..Len(ops) : i < j => ops[i][1] <= ops[j][1]
        /\ \A k \in 1..Len(defs) :
             LET tex == HasPass(ops, k, "textureMultiply")
                 blob == HasPass(ops, k, "blob")
             IN /\ tex => (arg[5] /\ arg[6] /\ arg[7] /\ textureStrength > 1)
                /\ DrawsOf(ops, k) # <<>> =>
                     DrawsOf(ops, k) =
                       << <<k, "shadow", over>>, <<k, "body", over>>,
                          <<k, "depth62", over>>, <<k, "depth26", over>> >>
                       \o (IF tex
                           THEN << <<k, "textureMultiply", "multiply">>,
                                   <<k, "textureSoftLight", "soft-light">>,
                                   <<k, "textureOverlay", "overlay">> >>
                           ELSE <<>>)
                       \o << <<k, "meniscusLeft", over>>, <<k, "meniscusRight", over>> >>
                       \o [i \in 1..arg[4] |-> <<k, "bristle", over>>]
                       \o << <<k, "specularHalo", "screen">>,
                             <<k, "specularGlint", "screen">> >>
                       \o (IF blob
                           THEN << <<k, "blob", over>>, <<k, "blobGlint", "screen">> >>
                           ELSE <<>>)

\* a render 1.1 s into the animation with a loaded texture: the first stroke
\* is complete and drawn with the texture and without a blob, the third is
\* revealing and drawn with the texture and the blob, after the second
C26_Witness ==
  /\ arg[1] = "scene" /\ arg[2] = 1100 /\ arg[3] > 0 /\ ret # <<>>
  /\ arg[5] /\ arg[6] /\ arg[7]
  /\ HasPass(ret[1].ops, 1, "textureOverlay") /\ ~HasPass(ret[1].ops, 1, "blob")
  /\ HasPass(ret[1].ops, 2, "specularGlint")
  /\ HasPass(ret[1].ops, 3, "textureOverlay") /\ HasPass(ret[1].ops, 3, "blobGlint")
  /\ ~HasPass(ret[1].ops, 4, "shadow")

\* C27: the wet blob pass is executed for a stroke only in a render in which
\* the stroke is revealing (progress < 0.96) and the blob alpha
\* 0.64 * max(0, 1 - (progress / 0.92) ^ 2.4) exceeds 0.015, never for a
\* settling or complete stroke; and the blob alpha does not increase with the
\* progress.
C27_BlobOnlyWhileRevealing ==
  (arg[1] = "blob" /\ ret # <<>>) =>
     /\ HasPass(ret[1], arg[2], "blob") => (arg[3] < 960 /\ ret[2] > 15)
     /\ arg[3] >= 960 => (~HasPass(ret[1], arg[2], "blob")
                           /\ ~HasPass(ret[1], arg[2], "blobGlint"))
     /\ 0 <= ret[3] /\ ret[3] <= ret[2] /\ ret[2] <= 640

\* the blob is drawn, with an alpha that is falling, half way through a stroke
C27_Witness ==
  /\ arg[1] = "blob" /\ ret # <<>>
  /\ arg[3] = 500 /\ arg[4] = 517
  /\ HasPass(ret[1], arg[2], "blob") /\ HasPass(ret[1], arg[2], "blobGlint")
  /\ ret[3] < ret[2] /\ ret[3] > 15

\* C28 (as claimed): whenever the wet blob pass runs, the half-width at the
\* last revealed sample, of which the radii of the blob's gradient and arcs
\* are fixed multiples, is strictly positive.
C28_BlobHasRadius ==
  (arg[1] = "blob" /\ ret # <<>> /\ HasPass(ret[1], arg[2], "blob")) => ret[4] > 0

\* the number of bezier segments of a stroke: its points are one more
TotalSamples == IF component = "early" THEN NUM_SAMPLES ELSE N_PTS

\* C29: in the final frame of a brush canvas, rendered at the total duration,
\* and in every repaint under reduced motion or after completion, every
\* authored stroke is complete: its start time plus its duration is at most
\* the total duration, it is drawn with progress 1 and all its
\* totalSamples + 1 samples, with the settled width profile (not live) and
\* without the wet blob.
C29_FinalFrameAllComplete ==
  (IsBrush /\ lastCall # NoCall
     /\ (lastCall.elapsed = TotalDuration \/ prefersReduced \/ doneRef)) =>
     /\ lastCall.elapsed = TotalDuration
     /\ DOMAIN lastCall.out.strokes = 1..Len(SceneDefs)
     /\ \A k \in 1..Len(SceneDefs) :
          /\ SceneDefs[k].t0 + SceneDefs[k].dt <= Millis(TotalDuration)
          /\ lastCall.out.strokes[k][2] = 1000
          /\ lastCall.out.strokes[k][3] = TotalSamples + 1
          /\ ~(lastCall.out.strokes[k][2] < 960)
          /\ ~blobDrawn(lastCall.out.strokes[k][2])

\* a repaint on a resize after the animation of the textured canvas ended,
\* with all eight strokes drawn in full
C29_Witness ==
  /\ component = "textured" /\ ~prefersReduced /\ doneRef
  /\ op = "resize" /\ paints = 1 /\ renders >= 3
  /\ lastCall.elapsed = ANIM_END
  /\ DOMAIN lastCall.out.strokes = 1..8
  /\ lastCall.out.strokes[8][2] = 1000 /\ lastCall.out.strokes[8][3] = N_PTS + 1

\* Math.ceil(n / step)
Ceil(n, step) == CHOOSE c \in 0..n : c * step >= n /\ (c - 1) * step < n

\* C30: no array is read out of bounds. For every progress in [0, 1]
\* renderStroke reads the points, the normals and the two noise arrays only at
\* indices 0..count-1, with count <= totalSamples + 1, the length of the
\* points and of the noise arrays; and bakeNoise(n, rng, step) reads ctrl only
\* at indices in [0, ceil(n / step) + 1], all below the length of ctrl.
C30_NoReadOutOfBounds ==
  (arg[1] = "reads" /\ ret # <<>>) =>
     /\ count(arg[3]) <= N_PTS + 1
     /\ ret[2].pts = N_PTS + 1 /\ ret[2].noise = N_PTS + 1
     /\ \A a \in {"pts", "nrm", "noise"} :
          /\ ret[1][a] \subseteq 0..(count(arg[3]) - 1)
          /\ ret[1][a] \subseteq 0..(ret[2][a] - 1)
     /\ ret[3] \subseteq 0..(Ceil(arg[4], arg[5]) + 1)
     /\ ret[3] \subseteq 0..(ret[4] - 1)

\* a complete stroke reads the last point and the last noise value, and a
\* noise array of 201 values in steps of 7 reads ctrl up to index 29 of 31
C30_Witness ==
  /\ arg[1] = "reads" /\ ret # <<>>
  /\ arg[3] = 1000 /\ arg[4] = N_PTS + 1 /\ arg[5] = 7
  /\ N_PTS \in ret[1].pts /\ N_PTS \in ret[1].noise /\ N_PTS \in ret[1].nrm
  /\ 29 \in ret[3] /\ 30 \notin ret[3] /\ ret[4] = 31

====
